---- MODULE Spec2Model ----
(***************************************************************************)
(* The entropy pool of esoteric_entropy/pool.py: EntropyPool with its      *)
(* SourceState rows, the raw buffer, the SHA-256 conditioner and the       *)
(* sequential and parallel collection rounds.                              *)
(*                                                                         *)
(* Bytes are integers.  0..255 are concrete byte values.  The bytes of a   *)
(* SHA-256 digest are not computed: digest number d (the d-th message the  *)
(* pool ever hashed, see sha256) has the bytes 256*d .. 256*d+31, which    *)
(* differ from every concrete byte and from every other digest's bytes.    *)
(***************************************************************************)
EXTENDS Integers, Sequences, FiniteSets

VARIABLES
    sources,        \* self._sources: sequence of SourceState records
    buffer,         \* self._buffer: raw collected bytes
    counter,        \* self._counter
    total_output,   \* self._total_output
    state,          \* self._state: the 32 bytes of the conditioner state
    sha256,         \* the messages hashed so far; message d has digest d
    ctor,           \* the arguments and the os.urandom(32) draw of __init__
    pc,             \* where the calling thread is: "idle", "join", "gather"
    threads,        \* collect_all(parallel): the list `threads` (task ids)
    results,        \* collect_all(parallel): the list `results`
    joinIdx,        \* collect_all(parallel): index of the thread being joined
    joinEnd,        \* clock value at which the current join gives up
    timeout,        \* collect_all(parallel): the timeout argument, in ticks
    clock,          \* ticks of time.monotonic() since `deadline` was computed
    tasks,          \* worker threads whose _collect_one has not returned yet
    round,          \* number of parallel rounds started so far
    nextTid,        \* next fresh worker thread id
    call,           \* the most recent API call: operation, argument, result
    attempts,       \* the _collect_one executions finished by the last step
    blocks,         \* the blocks produced by the last get_random_bytes call
    contrib,        \* task ids whose data is in `results`, in order
    late,           \* tasks of this round still running when the deadline passed
    host,           \* the machine: what the availability probes find on it
    sampled,        \* the most recent source.collect(n) call and what it returned
    streak,         \* the run of collect(200) calls on one source: calls, bytes
    detected,       \* the most recent detect_available_sources() call
    conditioned,    \* the most recent von_neumann_debias or xor_fold call
    battery,        \* the most recent run_all_tests call
    cli,            \* the stream command: its options, loop position and output
    race            \* two threads on one pool: the shared fields and each
                    \* thread's position and locals

vars == <<sources, buffer, counter, total_output, state, sha256, ctor, pc,
          threads, results, joinIdx, joinEnd, timeout, clock, tasks, round,
          nextTid, call, attempts, blocks, contrib, late,
          host, sampled, streak, detected, conditioned, battery, cli, race>>

poolVars == <<buffer, counter, total_output, state, sha256, blocks>>
parVars == <<threads, results, joinIdx, joinEnd, timeout, clock, contrib, late>>
libVars == <<host, sampled, streak, detected, conditioned, battery, cli, race>>

----------------------------------------------------------------------------
(* Program constants *)

DigestSize == 32        \* hashlib.sha256().digest() is 32 bytes
ChunkSize == 256        \* self._buffer[:256]
JoinFloor == 1          \* max(0.1, ...): the shortest join, one tick of 0.1 s

(* Bounds of the model *)

MaxSources == 2         \* add_source is called at most this often
MaxRounds == 2          \* collect_all rounds (sequential and parallel together)
MaxCounter == 2         \* output blocks produced
MaxCalls == 3           \* API calls made on the pool

(* Inputs *)

None == <<-1>>                                      \* Python's None
Zeros(k) == [i \in 1..k |-> 0]
Ones(k) == [i \in 1..k |-> 1]
Repeat(pat, k) == [i \in 1..(k * Len(pat)) |-> pat[((i - 1) % Len(pat)) + 1]]

Seeds == {None, <<>>, Zeros(32)}                    \* seed argument of __init__
Urandom32 == {Ones(32), Repeat(<<2>>, 32)}          \* os.urandom(32)
Urandom8 == {Zeros(8), Ones(8)}                     \* os.urandom(8)
Times == {0, 1}                                     \* time.time(), in seconds
Names == {"clock_jitter", "dns_timing"}             \* source.name
Weights == {1}                                      \* weight argument of add_source
Requests == {-1, 0, 1, 2, 3, 33}                    \* n_bytes of get_random_bytes
Timeouts == {1, 2}                                  \* timeout of collect_all, in ticks
Durations == {1}                                    \* time.monotonic() - t0, in ticks

\* The uint8 arrays source.collect() may return, by name
LowSample == <<1, 1, 1, 2>>                         \* Shannon 0.81 bits/byte
HighSample == Repeat(<<1, 2, 3, 4>>, 75)            \* 300 bytes, Shannon 2 bits/byte
Samples == {"empty", "low", "high"}
Array(sample) ==
    CASE sample = "empty" -> <<>>
      [] sample = "low" -> LowSample
      [] sample = "high" -> HighSample

\* What one call of source.collect() does: raise, or return an array after dur.
Outcomes ==
    {[kind |-> "raise", sample |-> "empty", dur |-> 0]}
    \cup {[kind |-> "return", sample |-> d, dur |-> t] : d \in Samples, t \in Durations}

----------------------------------------------------------------------------
(* Helpers *)

Range(s) == {s[i] : i \in DOMAIN s}
Min(a, b) == IF a < b THEN a ELSE b
Max(a, b) == IF a > b THEN a ELSE b

RECURSIVE Pow(_, _)
Pow(b, e) == IF e = 0 THEN 1 ELSE b * Pow(b, e - 1)

RECURSIVE Gcd(_, _)
Gcd(a, b) == IF b = 0 THEN a ELSE Gcd(b, a % b)

RECURSIVE SetGcd(_)
SetGcd(S) ==
    IF S = {} THEN 0
    ELSE LET x == CHOOSE y \in S : TRUE IN Gcd(x, SetGcd(S \ {x}))

RECURSIVE SetProd(_, _)
SetProd(f, S) ==
    IF S = {} THEN 1
    ELSE LET x == CHOOSE y \in S : TRUE IN f[x] * SetProd(f, S \ {x})

RECURSIVE SetSum(_, _)
SetSum(f, S) ==
    IF S = {} THEN 0
    ELSE LET x == CHOOSE y \in S : TRUE IN f[x] + SetSum(f, S \ {x})

\* the concatenation of the sequences ss[lo], ..., ss[hi]
RECURSIVE FlattenRange(_, _, _)
FlattenRange(ss, lo, hi) ==
    IF lo > hi THEN <<>>
    ELSE IF lo = hi THEN ss[lo]
    ELSE LET mid == (lo + hi) \div 2
         IN FlattenRange(ss, lo, mid) \o FlattenRange(ss, mid + 1, hi)

Flatten(ss) == FlattenRange(ss, 1, Len(ss))

\* Python's s[:n], also for negative n
SlicePrefix(s, n) ==
    IF n >= 0 THEN SubSeq(s, 1, Min(n, Len(s)))
    ELSE SubSeq(s, 1, Max(0, Len(s) + n))

\* Python's s[n:] for n >= 0
SliceSuffix(s, n) == SubSeq(s, Min(n, Len(s)) + 1, Len(s))

----------------------------------------------------------------------------
(* EntropySource._quick_shannon.  The float it returns is kept as the       *)
(* distribution it is computed from: probs = counts / len(data), here the   *)
(* counts divided by their gcd.  <<>> is the 0.0 of an empty array and of   *)
(* a fresh SourceState.                                                     *)

Counts(data) ==
    [v \in Range(data) |-> Cardinality({i \in DOMAIN data : data[i] = v})]

_quick_shannon(data) ==
    IF Len(data) = 0 THEN <<>>
    ELSE LET c == Counts(data)
             g == SetGcd(Range(c))
         IN [v \in DOMAIN c |-> c[v] \div g]

\* last_entropy > 1.0.  With probabilities c_i / n the entropy
\* -sum (c_i/n) log2(c_i/n) exceeds 1 exactly when 2^n * prod c_i^c_i < n^n.
\* (The 1e-15 inside the log lowers the float by about 1e-15 per value, far
\* less than the distance of any such sum from 1.0 unless it equals 1.0, and
\* then the float is below 1.0 as well.)
EntropyAboveOne(e) ==
    IF e = <<>> THEN FALSE
    ELSE LET n == SetSum(e, DOMAIN e)
             pp == SetProd([v \in DOMAIN e |-> Pow(e[v], e[v])], DOMAIN e)
         IN Pow(2, n) * pp < Pow(n, n)

\* _quick_shannon of each array source.collect() may return, computed once
Shannon == [s \in Samples |-> _quick_shannon(Array(s))]

----------------------------------------------------------------------------
(* hashlib.sha256: the digest of a message is named by the position of the  *)
(* message among the messages hashed so far, so equal messages have equal   *)
(* digests and different messages different ones.                           *)

DigestBytes(d) == [i \in 1..DigestSize |-> 256 * d + (i - 1)]

HashIndex(tbl, msg) ==
    IF \E i \in DOMAIN tbl : tbl[i] = msg
    THEN CHOOSE i \in DOMAIN tbl : tbl[i] = msg
    ELSE Len(tbl) + 1

Sha256Digest(tbl, msg) == DigestBytes(HashIndex(tbl, msg))

Sha256Table(tbl, msg) ==
    IF HashIndex(tbl, msg) <= Len(tbl) THEN tbl ELSE Append(tbl, msg)

\* struct.pack("<Q", v): 8 bytes, least significant first
RECURSIVE LittleEndian(_, _)
LittleEndian(v, k) ==
    IF k = 0 THEN <<>> ELSE <<v % 256>> \o LittleEndian(v \div 256, k - 1)

PackQ(v) == LittleEndian(v, 8)

\* struct.pack("<d", t): the IEEE 754 double of t, least significant byte first
PackD(t) ==
    CASE t = 0 -> <<0, 0, 0, 0, 0, 0, 0, 0>>
      [] t = 1 -> <<0, 0, 0, 0, 0, 0, 240, 63>>
      [] t = 2 -> <<0, 0, 0, 0, 0, 0, 0, 64>>

----------------------------------------------------------------------------
(* SourceState and EntropyPool.__init__ *)

SourceState(name, weight) ==
    [source |-> name, weight |-> weight, total_bytes |-> 0, failures |-> 0,
     last_entropy |-> <<>>, last_collect_time |-> 0, healthy |-> TRUE]

\* The record of a call: its operation, its arguments (name, n, parallel,
\* timeout), what it returned (bytes or count) or raised (error), and its
\* number among the calls made.
NoCall ==
    [op |-> "", name |-> "", n |-> 0, parallel |-> FALSE, timeout |-> 0,
     bytes |-> <<>>, count |-> 0, error |-> "", seq |-> 0]

\* Python's truth value of the seed argument: None and b"" are false
Truthy(seed) == seed # None /\ Len(seed) > 0

\* `seed or os.urandom(32)`
SeedAppendedToUrandom(seed, rnd) == IF seed = None THEN rnd ELSE rnd \o seed
SeedMaterial(seed, rnd) == IF Truthy(seed) THEN seed ELSE rnd

__init__(seed, rnd) ==
        /\ ctor = [seed |-> seed, urandom |-> IF Truthy(seed) THEN <<>> ELSE rnd]
        /\ sources = <<>>
        /\ buffer = <<>>
        /\ counter = 0
        /\ total_output = 0
        /\ state = Sha256Digest(<<>>, SeedMaterial(seed, rnd))
        /\ sha256 = Sha256Table(<<>>, SeedMaterial(seed, rnd))
        /\ pc = "idle"
        /\ threads = <<>>
        /\ results = <<>>
        /\ joinIdx = 0
        /\ joinEnd = 0
        /\ timeout = 0
        /\ clock = 0
        /\ tasks = {}
        /\ round = 0
        /\ nextTid = 1
        /\ call = [NoCall EXCEPT !.op = "__init__"]
        /\ attempts = <<>>
        /\ blocks = <<>>
        /\ contrib = <<>>
        /\ late = {}

\* The machines the library runs on: what platform.system() says and what
\* the availability probes of the sources find.
LinuxBox == [darwin |-> FALSE, motion_sensors |-> FALSE, network |-> TRUE,
             bluetooth |-> FALSE, wifi |-> FALSE]
MacMini == [darwin |-> TRUE, motion_sensors |-> FALSE, network |-> TRUE,
            bluetooth |-> TRUE, wifi |-> FALSE]
MacBook == [darwin |-> TRUE, motion_sensors |-> TRUE, network |-> FALSE,
            bluetooth |-> TRUE, wifi |-> TRUE]
Hosts == {LinuxBox, MacMini, MacBook}

\* No source has been sampled and no library function called yet
NoSample ==
    [source |-> "", n |-> 0, raised |-> FALSE, data |-> <<>>, measured |-> <<>>]
NoStreak == [source |-> "", calls |-> 0, total |-> 0]
NoDetect == [called |-> FALSE, probes |-> <<>>, available |-> <<>>, raised |-> FALSE]
NoConditioning ==
    [fn |-> "", input |-> <<>>, fold_factor |-> 0, output |-> <<>>,
     input_bits |-> 0, output_bits |-> 0]
NoBattery ==
    [called |-> FALSE, data |-> <<>>, outcomes |-> <<>>, results |-> <<>>,
     raised |-> FALSE, scored |-> FALSE, graded |-> <<>>, score |-> <<0, 1>>]

\* No stream command running
NoStream ==
    [pc |-> "none", rate |-> 0, fmt |-> "", n_bytes |-> 0, chunk_size |-> 0,
     total |-> 0, written |-> 0, wants |-> <<>>, interrupted |-> FALSE]

\* No thread started on the shared pool
NoRace == [started |-> FALSE]

NoLibrary ==
    /\ sampled = NoSample
    /\ streak = NoStreak
    /\ detected = NoDetect
    /\ conditioned = NoConditioning
    /\ battery = NoBattery
    /\ cli = NoStream
    /\ race = NoRace

\* EntropyPool(): no seed
Init == \E rnd \in {Ones(32)} : __init__(None, rnd) /\ host = LinuxBox /\ NoLibrary

\* EntropyPool(seed) for every seed argument
InitSeed ==
    \E seed \in Seeds, rnd \in Urandom32 :
        __init__(seed, rnd) /\ host = LinuxBox /\ NoLibrary

----------------------------------------------------------------------------
(* EntropyPool._collect_one: one sampling attempt on the SourceState ss,    *)
(* where source.collect() does what the outcome o says.  The result is the  *)
(* SourceState afterwards and the bytes returned.                           *)

_collect_one_uncounted(ss, o) ==
    IF o.kind = "raise"
    THEN [ss |-> [ss EXCEPT !.failures = @ + 1, !.healthy = FALSE],
          bytes |-> <<>>]
    ELSE LET data == Array(o.sample)
             timed == [ss EXCEPT !.last_collect_time = o.dur]
             shannon == Shannon[o.sample]
         IN IF Len(data) > 0
            THEN [ss |-> [timed EXCEPT
                            !.total_bytes = @ + Len(data),
                            !.last_entropy = shannon,
                            !.healthy = EntropyAboveOne(shannon)],
                  bytes |-> data]
            ELSE [ss |-> [timed EXCEPT !.healthy = FALSE], bytes |-> <<>>]

_collect_one_healthy_on_data(ss, o) ==
    IF o.kind = "raise"
    THEN [ss |-> [ss EXCEPT !.failures = @ + 1, !.healthy = FALSE],
          bytes |-> <<>>]
    ELSE LET data == Array(o.sample)
             timed == [ss EXCEPT !.last_collect_time = o.dur]
             shannon == Shannon[o.sample]
         IN IF Len(data) > 0
            THEN [ss |-> [timed EXCEPT
                            !.total_bytes = @ + Len(data),
                            !.last_entropy = shannon,
                            !.healthy = TRUE],
                  bytes |-> data]
            ELSE [ss |-> [timed EXCEPT !.failures = @ + 1, !.healthy = FALSE],
                  bytes |-> <<>>]

_collect_one(ss, o) ==
    IF o.kind = "raise"
    THEN [ss |-> [ss EXCEPT !.failures = @ + 1, !.healthy = FALSE],
          bytes |-> <<>>]
    ELSE LET data == Array(o.sample)
             timed == [ss EXCEPT !.last_collect_time = o.dur]
             shannon == Shannon[o.sample]
         IN IF Len(data) > 0
            THEN [ss |-> [timed EXCEPT
                            !.total_bytes = @ + Len(data),
                            !.last_entropy = shannon,
                            !.healthy = EntropyAboveOne(shannon)],
                  bytes |-> data]
            ELSE [ss |-> [timed EXCEPT !.failures = @ + 1, !.healthy = FALSE],
                  bytes |-> <<>>]

\* a round that leaves out the sources marked unhealthy
CollectSequentialSkipUnhealthy(srcs, outs) ==
    LET rs == [i \in DOMAIN srcs |->
                 IF srcs[i].healthy THEN _collect_one(srcs[i], outs[i])
                 ELSE [ss |-> srcs[i], bytes |-> <<>>]]
    IN [sources |-> [i \in DOMAIN srcs |-> rs[i].ss],
        raw |-> Flatten([i \in DOMAIN srcs |-> rs[i].bytes])]

\* collect_all(parallel=False), lines 107-109: every source in list order
CollectSequential(srcs, outs) ==
    LET rs == [i \in DOMAIN srcs |-> _collect_one(srcs[i], outs[i])]
    IN [sources |-> [i \in DOMAIN srcs |-> rs[i].ss],
        raw |-> Flatten([i \in DOMAIN srcs |-> rs[i].bytes])]

Attempts(outs) == [i \in DOMAIN outs |-> [ss |-> i, outcome |-> outs[i]]]

----------------------------------------------------------------------------
(* The body of the while loop of get_random_bytes: one output block.        *)
(* p holds the fields the loop reads and writes.                            *)

\* the wall time hashed before the counter
BlockMessageSwapped(st, sample, ctr, t, rnd) ==
    st \o sample \o PackD(t) \o PackQ(ctr) \o rnd

\* lines 164-169: the five h.update calls
BlockMessage(st, sample, ctr, t, rnd) ==
    st \o sample \o PackQ(ctr) \o PackD(t) \o rnd

\* self._state left as it was
ExtractBlockStale(p, t, rnd) ==
    LET ctr == p.counter + 1
        sample == SlicePrefix(p.buffer, ChunkSize)
        msg == BlockMessage(p.state, sample, ctr, t, rnd)
        digest == Sha256Digest(p.sha256, msg)
    IN [counter |-> ctr,
        buffer |-> IF Len(p.buffer) > ChunkSize
                   THEN SliceSuffix(p.buffer, ChunkSize) ELSE p.buffer,
        state |-> p.state,
        sha256 |-> Sha256Table(p.sha256, msg),
        output |-> p.output \o digest,
        blocks |-> Append(p.blocks, [digest |-> digest, state |-> p.state,
                                      taken |-> Len(sample), counter |-> ctr,
                                      time |-> t, urandom |-> rnd])]

\* the counter read but not written back
ExtractBlockCounterKept(p, t, rnd) ==
    LET ctr == p.counter + 1
        sample == SlicePrefix(p.buffer, ChunkSize)
        msg == BlockMessage(p.state, sample, ctr, t, rnd)
        digest == Sha256Digest(p.sha256, msg)
    IN [counter |-> p.counter,
        buffer |-> IF Len(p.buffer) > ChunkSize
                   THEN SliceSuffix(p.buffer, ChunkSize) ELSE p.buffer,
        state |-> digest,
        sha256 |-> Sha256Table(p.sha256, msg),
        output |-> p.output \o digest,
        blocks |-> Append(p.blocks, [digest |-> digest, state |-> p.state,
                                      taken |-> Len(sample), counter |-> ctr,
                                      time |-> t, urandom |-> rnd])]

\* lines 157-171: one pass of the while loop
ExtractBlock(p, t, rnd) ==
    LET ctr == p.counter + 1
        sample == SlicePrefix(p.buffer, ChunkSize)
        msg == BlockMessage(p.state, sample, ctr, t, rnd)
        digest == Sha256Digest(p.sha256, msg)
    IN [counter |-> ctr,
        buffer |-> IF Len(p.buffer) > ChunkSize
                   THEN SliceSuffix(p.buffer, ChunkSize) ELSE p.buffer,
        state |-> digest,
        sha256 |-> Sha256Table(p.sha256, msg),
        output |-> p.output \o digest,
        blocks |-> Append(p.blocks, [digest |-> digest, state |-> p.state,
                                      taken |-> Len(sample), counter |-> ctr,
                                      time |-> t, urandom |-> rnd])]

\* while len(output) < n_bytes: ...; the j-th pass reads ts[j] and rs[j]
RECURSIVE ExtractLoop(_, _, _, _, _)
ExtractLoop(p, n, ts, rs, j) ==
    IF Len(p.output) < n
    THEN ExtractLoop(ExtractBlock(p, ts[j], rs[j]), n, ts, rs, j + 1)
    ELSE p

\* return bytes(output[:n_bytes])
ReturnUntruncated(output, n) == output
ReturnValue(output, n) == SlicePrefix(output, n)

\* the number of passes of the loop for a request of n bytes
Passes(n) == IF n <= 0 THEN 0 ELSE (n + DigestSize - 1) \div DigestSize

----------------------------------------------------------------------------
(* The API calls of the single calling thread *)

Called(r) == call' = [r EXCEPT !.seq = call.seq + 1]

MayCall == pc = "idle" /\ call.seq < MaxCalls

add_source(name, weight) ==
    /\ MayCall
    /\ Len(sources) < MaxSources
    /\ sources' = Append(sources, SourceState(name, weight))
    /\ Called([NoCall EXCEPT !.op = "add_source", !.name = name])
    /\ attempts' = <<>>
    /\ UNCHANGED <<poolVars, parVars, ctor, pc, tasks, round, nextTid>>
    /\ UNCHANGED libVars

\* collect_all(parallel=False)
collect_all_sequential(outs) ==
    /\ MayCall
    /\ round < MaxRounds
    /\ LET c == CollectSequential(sources, outs)
       IN /\ sources' = c.sources
          /\ buffer' = buffer \o c.raw
          /\ Called([NoCall EXCEPT !.op = "collect_all", !.count = Len(c.raw)])
    /\ attempts' = Attempts(outs)
    /\ round' = round + 1
    /\ UNCHANGED <<counter, total_output, state, sha256, blocks, parVars, ctor,
                   pc, tasks, nextTid>>
    /\ UNCHANGED libVars

\* a refill only when the buffer cannot serve the request at all
NeedsRefillBelowRequest(pool_size, n) == pool_size < n

\* line 153: if pool_size < n_bytes * 2
NeedsRefill(pool_size, n) == pool_size < n * 2

get_random_bytes(n, outs, ts, rs) ==
    /\ MayCall
    /\ counter + Passes(n) <= MaxCounter
    /\ LET refill == NeedsRefill(Len(buffer), n)
           c == IF refill THEN CollectSequential(sources, outs)
                ELSE [sources |-> sources, raw |-> <<>>]
           p == ExtractLoop([counter |-> counter, buffer |-> buffer \o c.raw,
                             state |-> state, sha256 |-> sha256,
                             output |-> <<>>, blocks |-> <<>>],
                            n, ts, rs, 1)
       IN /\ refill => round < MaxRounds
          /\ ~refill => outs = [i \in DOMAIN sources |-> CHOOSE o \in Outcomes : TRUE]
          /\ sources' = c.sources
          /\ attempts' = IF refill THEN Attempts(outs) ELSE <<>>
          /\ round' = IF refill THEN round + 1 ELSE round
          /\ buffer' = p.buffer
          /\ counter' = p.counter
          /\ state' = p.state
          /\ sha256' = p.sha256
          /\ blocks' = p.blocks
          /\ total_output' = total_output + n
          /\ Called([NoCall EXCEPT !.op = "get_random_bytes", !.n = n,
                                     !.bytes = ReturnValue(p.output, n)])
    /\ UNCHANGED <<parVars, ctor, pc, tasks, nextTid>>
    /\ UNCHANGED libVars

----------------------------------------------------------------------------
(* collect_all(parallel=True, timeout): the calling thread starts one       *)
(* daemon thread per source, joins them in turn and then gathers `results`. *)
(* A worker thread runs _worker: _collect_one, then results.append.         *)

Running(tid) == \E t \in tasks : t.id = tid

\* max(0.1, deadline - time.monotonic()), with deadline = timeout on `clock`
Remaining(now, to) == Max(JoinFloor, to - now)

\* lines 117-133: start the threads, compute the deadline, enter the first join
collect_all_parallel(to) ==
    /\ MayCall
    /\ round < MaxRounds
    /\ threads' = [i \in DOMAIN sources |-> nextTid + i - 1]
    /\ tasks' = tasks \cup {[id |-> nextTid + i - 1, ss |-> i, round |-> round + 1] :
                              i \in DOMAIN sources}
    /\ nextTid' = nextTid + Len(sources)
    /\ round' = round + 1
    /\ results' = <<>>
    /\ contrib' = <<>>
    /\ late' = {}
    /\ timeout' = to
    /\ clock' = 0
    /\ joinIdx' = 1
    /\ joinEnd' = Remaining(0, to)
    /\ pc' = IF Len(sources) = 0 THEN "gather" ELSE "join"
    /\ Called([NoCall EXCEPT !.op = "collect_all", !.parallel = TRUE,
                             !.timeout = to])
    /\ attempts' = <<>>
    /\ UNCHANGED <<sources, poolVars, ctor>>
    /\ UNCHANGED libVars

\* _worker (lines 120-124) of the thread t, whose source.collect() does o.
\* The list `results` of a round that has returned is garbage.
worker(t, o) ==
    /\ t \in tasks
    /\ LET r == _collect_one(sources[t.ss], o)
           current == pc # "idle" /\ t.round = round
       IN /\ sources' = [sources EXCEPT ![t.ss] = r.ss]
          /\ results' = IF current /\ Len(r.bytes) > 0
                        THEN Append(results, r.bytes) ELSE results
          /\ contrib' = IF current /\ Len(r.bytes) > 0
                        THEN Append(contrib, t.id) ELSE contrib
    /\ tasks' = tasks \ {t}
    /\ attempts' = <<[ss |-> t.ss, outcome |-> o]>>
    /\ UNCHANGED <<poolVars, ctor, pc, threads, joinIdx, joinEnd, timeout, clock,
                   late, round, nextTid, call>>
    /\ UNCHANGED libVars

\* 0.1 s pass while the calling thread is blocked in t.join(timeout=remaining)
Tick ==
    /\ pc = "join"
    /\ Running(threads[joinIdx])
    /\ clock < joinEnd
    /\ clock' = clock + 1
    /\ late' = IF clock < timeout /\ clock + 1 >= timeout
               THEN {t.id : t \in {u \in tasks : u.round = round}}
               ELSE late
    /\ attempts' = <<>>
    /\ UNCHANGED <<sources, poolVars, ctor, pc, threads, results, joinIdx, joinEnd,
                   timeout, contrib, tasks, round, nextTid, call>>
    /\ UNCHANGED libVars

\* t.join() without a timeout
join_forever ==
    /\ pc = "join"
    /\ ~Running(threads[joinIdx])
    /\ IF joinIdx = Len(threads)
       THEN /\ pc' = "gather"
            /\ UNCHANGED <<joinIdx, joinEnd>>
       ELSE /\ pc' = "join"
            /\ joinIdx' = joinIdx + 1
            /\ joinEnd' = clock + Remaining(clock, timeout)
    /\ attempts' = <<>>
    /\ UNCHANGED <<sources, poolVars, ctor, threads, results, timeout, clock,
                   contrib, late, tasks, round, nextTid, call>>
    /\ UNCHANGED libVars

\* lines 134-136: t.join returns, because t ended or `remaining` has passed
join ==
    /\ pc = "join"
    /\ ~Running(threads[joinIdx]) \/ clock >= joinEnd
    /\ IF joinIdx = Len(threads)
       THEN /\ pc' = "gather"
            /\ UNCHANGED <<joinIdx, joinEnd>>
       ELSE /\ pc' = "join"
            /\ joinIdx' = joinIdx + 1
            /\ joinEnd' = clock + Remaining(clock, timeout)
    /\ attempts' = <<>>
    /\ UNCHANGED <<sources, poolVars, ctor, threads, results, timeout, clock,
                   contrib, late, tasks, round, nextTid, call>>
    /\ UNCHANGED libVars

\* a round that returns the number of results instead of their bytes
gather_counts_results ==
    /\ pc = "gather"
    /\ buffer' = buffer \o Flatten(results)
    /\ call' = [call EXCEPT !.count = Len(results)]
    /\ pc' = "idle"
    /\ attempts' = <<>>
    /\ UNCHANGED <<sources, counter, total_output, state, sha256, blocks, ctor,
                   parVars, tasks, round, nextTid>>
    /\ UNCHANGED libVars

\* lines 138-144: concatenate `results`, extend the buffer, return the length
gather ==
    /\ pc = "gather"
    /\ buffer' = buffer \o Flatten(results)
    /\ call' = [call EXCEPT !.count = Len(Flatten(results))]
    /\ pc' = "idle"
    /\ attempts' = <<>>
    /\ UNCHANGED <<sources, counter, total_output, state, sha256, blocks, ctor,
                   parVars, tasks, round, nextTid>>
    /\ UNCHANGED libVars

----------------------------------------------------------------------------
Next ==
    \/ \E name \in Names, w \in Weights : add_source(name, w)
    \/ \E outs \in [DOMAIN sources -> Outcomes] : collect_all_sequential(outs)
    \/ \E to \in Timeouts : collect_all_parallel(to)
    \/ \E t \in tasks, o \in Outcomes : worker(t, o)
    \/ Tick
    \/ join
    \/ gather
    \/ \E n \in Requests, outs \in [DOMAIN sources -> Outcomes] :
          \E ts \in [1..Passes(n) -> Times], rs \in [1..Passes(n) -> Urandom8] :
              get_random_bytes(n, outs, ts, rs)

Spec == Init /\ [][Next]_vars

\* The calling thread runs, and time passes while it waits; a worker's
\* source.collect() need never return.
FairSpec == Spec /\ WF_vars(Tick) /\ WF_vars(join) /\ WF_vars(gather)

\* Construction with every seed argument, then requests for output
NextSeed ==
    \/ \E name \in Names, w \in Weights : add_source(name, w)
    \/ \E n \in Requests, outs \in [DOMAIN sources -> Outcomes] :
          \E ts \in [1..Passes(n) -> Times], rs \in [1..Passes(n) -> Urandom8] :
              get_random_bytes(n, outs, ts, rs)

SeedSpec == InitSeed /\ [][NextSeed]_vars

----------------------------------------------------------------------------
(* The entropy sources of esoteric_entropy/sources: collect(n_samples) of    *)
(* each source as a function of n_samples and of what the source measures.  *)
(* A result holds the uint8 array returned (or that the call raised) and    *)
(* `measured`, the bytes the call derived from its measurements before any  *)
(* padding or truncation.                                                   *)

Returned(data, measured) == [raised |-> FALSE, data |-> data, measured |-> measured]
Raised == [raised |-> TRUE, data |-> <<>>, measured |-> <<>>]

\* What a probe reads at its i-th measurement: a constant ("flat"), a counter
\* or a jitter
Patterns == {"ramp", "wobble"}
Reading(p, i) ==
    CASE p = "flat" -> 100
      [] p = "ramp" -> 100 + 3 * i
      [] p = "wobble" -> 89 + ((i * i * 7) % 23)

\* Which of the measurements succeed: all, none, every second one
Losses == {"none", "all", "odd"}
Answered(loss, i) ==
    CASE loss = "none" -> TRUE
      [] loss = "all" -> FALSE
      [] loss = "odd" -> i % 2 = 0

\* numpy: (a & 0xFF).astype(np.uint8), np.diff, np.abs, np.resize, a ^ b
Low8(a) == [i \in DOMAIN a |-> a[i] % 256]
np_diff(a) == [i \in 1..(Len(a) - 1) |-> a[i + 1] - a[i]]
np_abs(a) == [i \in DOMAIN a |-> IF a[i] < 0 THEN -a[i] ELSE a[i]]
np_resize(a, n) ==
    IF Len(a) = 0 THEN [i \in 1..n |-> 0]
    ELSE [i \in 1..n |-> a[((i - 1) % Len(a)) + 1]]

RECURSIVE XorBits(_, _, _)
XorBits(a, b, w) ==
    IF w = 0 THEN 0
    ELSE ((a + b) % 2) + 2 * XorBits(a \div 2, b \div 2, w - 1)

\* a ^ b of two int64 of magnitude below 2^15, in two's complement
bitwise_xor(a, b) ==
    LET u == XorBits(a % 65536, b % 65536, 16)
    IN IF u >= 32768 THEN u - 65536 ELSE u

\* the measurements 1..n that succeeded, in order
Measurements(p, loss, n) ==
    Flatten([i \in 1..n |-> IF Answered(loss, i) THEN <<Reading(p, i)>> ELSE <<>>])

\* timing.py, ClockJitterSource.collect
ClockJitterSource_collect(n, p) ==
    LET diffs == [i \in 1..n |-> Reading(p, i)]
    IN Returned(Low8(diffs), Low8(diffs))

\* vmstat.py, VmstatSource.collect.  pats[k] says how counter k of vm_stat
\* moves from read to read, "missing" that vm_stat does not print it.
VmstatKeys == <<"Pages free", "Pageins">>
VmstatSource_collect(n, pats) ==
    LET rounds == Max(2, (n \div 19) + 1)
        delta(k, r) == Reading(pats[k], r) - Reading(pats[k], r - 1)
        deltas == Flatten([r \in 1..rounds |->
                    Flatten([k \in DOMAIN VmstatKeys |->
                        IF pats[k] # "missing" /\ delta(k, r) # 0
                        THEN <<delta(k, r)>> ELSE <<>>])])
    IN Returned(Low8(deltas), Low8(deltas))

\* network.py, DNSTimingSource.collect: 3 servers x 3 hostnames per round
DNSTimingSource_collect(n, p, loss) ==
    LET timings == Measurements(p, loss, 9 * Max(1, n \div 9))
    IN Returned(Low8(timings), Low8(timings))

\* sensor.py, SensorNoiseSource.collect
SensorNoiseSource_collect(n) == Returned(<<>>, <<>>)

\* novel.py, DispatchQueueSource.collect: _mach_time_fn loads libSystem.B.dylib,
\* which only a Darwin machine has
DispatchQueueSource_collect(n, p, h) ==
    IF ~h.darwin THEN Raised
    ELSE LET latencies == [i \in 1..n |-> Reading(p, i)]
         IN Returned(Low8(np_diff(latencies)), Low8(np_diff(latencies)))

\* Python's s[-n:] for n > 0
SliceLast(s, n) == SubSeq(s, Max(1, Len(s) - n + 1), Len(s))

\* ioregistry.py lines 94-101: hash-extend to n_samples bytes
RECURSIVE HashExtend(_, _, _)
HashExtend(extended, n, tbl) ==
    IF Len(extended) >= n THEN extended
    ELSE LET msg == SliceLast(extended, 64)
         IN HashExtend(extended \o Sha256Digest(tbl, msg), n, Sha256Table(tbl, msg))

\* ioregistry.py, IORegistryEntropySource.collect.  pats[k] says how value k of
\* ioreg moves from snapshot to snapshot, "missing" that ioreg does not print it
\* (no /usr/sbin/ioreg: every value is missing).
IORegKeys == <<"IOGPUUtilization", "Temperature">>
IORegistryEntropySource_collect(n, pats) ==
    LET n_snapshots == Max(10, Min(n \div 50, 25))
        vals(k) == [j \in 1..n_snapshots |-> Reading(pats[k], j)]
        harvest(k) ==
            IF pats[k] = "missing" \/ Cardinality(Range(vals(k))) < 2 THEN <<>>
            ELSE LET deltas == np_diff(vals(k))
                     xored == [i \in 1..(Len(deltas) - 1) |->
                                   bitwise_xor(deltas[i], deltas[i + 1])]
                 IN (IF Len(deltas) > 1 THEN Low8(np_abs(xored)) ELSE <<>>)
                        \o Low8(np_abs(deltas))
        entropy_bytes == Flatten([k \in DOMAIN IORegKeys |-> harvest(k)])
        padded == IF Len(entropy_bytes) < n
                  THEN SlicePrefix(HashExtend(entropy_bytes, n, <<>>), n)
                  ELSE entropy_bytes
    IN IF Len(entropy_bytes) = 0 THEN Returned(<<>>, <<>>)
       ELSE Returned(SlicePrefix(padded, n), entropy_bytes)

\* the RSSI values a radio reports: Reading moved to the range -81 .. -59 dBm
Rssi(p, k) == [i \in 1..k |-> Reading(p, i) - 170]

\* bluetooth.py, BluetoothNoiseSource._collect_timing
_collect_timing(n, p) ==
    LET timings == [i \in 1..n |-> Reading(p, i)]
    IN Returned(Low8(timings), Low8(timings))

\* bluetooth.py, BluetoothNoiseSource._collect_corebluetooth: the scan raises
\* (found = -1) or reports `found` RSSI values
_collect_corebluetooth(n, found, p) ==
    IF found < 10 THEN _collect_timing(n, p)
    ELSE LET arr == Rssi(p, found)
             combined == Low8(arr) \o (IF Len(arr) > 1 THEN Low8(np_diff(arr)) ELSE <<>>)
         IN IF Len(combined) >= n
            THEN Returned(SlicePrefix(combined, n), combined)
            ELSE Returned(np_resize(combined, n), combined)

\* bluetooth.py, BluetoothNoiseSource._collect_blueutil: every inquiry reports
\* `found` RSSI values
_collect_blueutil(n, found, p) ==
    LET inquiries == Max(n \div 10, 3)
        needed == IF found <= 0 THEN inquiries
                  ELSE Max(1, (n + found - 1) \div found)
        scans == Min(inquiries, needed)
        all_rssi == Rssi(p, scans * Max(found, 0))
    IN IF Len(all_rssi) < 5 THEN _collect_timing(n, p)
       ELSE Returned(np_resize(Low8(all_rssi), n), Low8(all_rssi))

\* bluetooth.py, BluetoothNoiseSource._collect_system_profiler
_collect_system_profiler(n, found, p) ==
    LET rounds == Max(n \div 5, 20)
        all_rssi == Rssi(p, rounds * Max(found, 0))
        timings == [i \in 1..rounds |-> Reading(p, i)]
        combined == Low8(all_rssi) \o Low8(timings)
    IN Returned(np_resize(combined, n), combined)

\* bluetooth.py, BluetoothNoiseSource.collect
BluetoothMethods == {"corebluetooth", "blueutil", "system_profiler", "timing", "none"}
BluetoothNoiseSource_collect(n, method, found, p) ==
    CASE method = "corebluetooth" -> _collect_corebluetooth(n, found, p)
      [] method = "blueutil" -> _collect_blueutil(n, found, p)
      [] method = "system_profiler" -> _collect_system_profiler(n, found, p)
      [] OTHER -> _collect_timing(n, p)

\* wifi.py, WiFiRSSISource.collect: usable says that is_available found a
\* method, noisy that the method also reports the noise floor
WiFiRSSISource_collect(n, usable, p, loss, noisy) ==
    LET readings == Measurements(p, loss, n)
        arr == [i \in DOMAIN readings |-> readings[i] - 170]
        narr == IF noisy THEN [i \in DOMAIN readings |-> readings[i] - 190] ELSE <<>>
        tarr == [i \in 1..n |-> Reading(p, i)]
        combined == Low8(arr)
                      \o (IF Len(arr) > 1 THEN Low8(np_diff(arr)) ELSE <<>>)
                      \o Low8(narr) \o Low8(tarr)
    IN IF ~usable \/ Len(arr) = 0 THEN Returned(<<>>, <<>>)
       ELSE IF Len(combined) >= n THEN Returned(SlicePrefix(combined, n), combined)
       ELSE Returned(np_resize(combined, n), combined)

\* is_available() of each modelled source on the machine h
is_available(src, h) ==
    CASE src = "clock_jitter" -> TRUE
      [] src = "dispatch_queue" -> TRUE
      [] src = "dns_timing" -> h.network
      [] src = "vmstat" -> h.darwin
      [] src = "ioregistry_deep" -> h.darwin
      [] src = "sensor_noise" -> h.darwin /\ h.motion_sensors
      [] src = "bluetooth_ble" -> h.darwin /\ h.bluetooth
      [] src = "wifi_rssi" -> h.darwin /\ h.wifi

\* Inputs of the sampling calls
SampleSizes == {0, 1, 20, 200}                      \* n_samples
CounterMoves ==                                     \* how two counters move
    {<<"flat", "ramp">>, <<"ramp", "wobble">>, <<"wobble", "missing">>}
NoCounters == <<"missing", "missing">>              \* the tool is not installed
Found == {-1, 3, 10}                                \* RSSI values per scan

poolAll ==
    <<sources, poolVars, parVars, ctor, pc, tasks, round, nextTid, call, attempts>>

\* One call src.collect(n) that did r.  streak follows the calls collect(200)
\* made in a row on one source, up to ten of them.
collect(src, n, r) ==
    /\ sampled' = [source |-> src, n |-> n, raised |-> r.raised,
                   data |-> r.data, measured |-> r.measured]
    /\ streak' = IF n # 200 THEN NoStreak
                 ELSE IF streak.source = src /\ streak.calls < 10
                 THEN [streak EXCEPT !.calls = @ + 1, !.total = @ + Len(r.data)]
                 ELSE [source |-> src, calls |-> 1, total |-> Len(r.data)]
    /\ UNCHANGED <<poolAll, host, detected, conditioned, battery, cli, race>>

collect_clock_jitter(n, p) ==
    /\ n >= 0
    /\ collect("clock_jitter", n, ClockJitterSource_collect(n, p))

collect_vmstat(n, pats) ==
    /\ pats = NoCounters <=> ~host.darwin
    /\ collect("vmstat", n, VmstatSource_collect(n, pats))

collect_dns_timing(n, p, loss) ==
    /\ ~host.network => loss = "all"
    /\ collect("dns_timing", n, DNSTimingSource_collect(n, p, loss))

collect_sensor_noise(n) ==
    /\ n >= 0
    /\ collect("sensor_noise", n, SensorNoiseSource_collect(n))

collect_dispatch_queue(n, p) ==
    /\ n >= 0
    /\ collect("dispatch_queue", n, DispatchQueueSource_collect(n, p, host))

collect_ioregistry_deep(n, pats) ==
    /\ pats = NoCounters <=> ~host.darwin
    /\ collect("ioregistry_deep", n, IORegistryEntropySource_collect(n, pats))

collect_bluetooth_ble(n, method, found, p) ==
    /\ method = "none" <=> ~is_available("bluetooth_ble", host)
    /\ collect("bluetooth_ble", n, BluetoothNoiseSource_collect(n, method, found, p))

collect_wifi_rssi(n, usable, p, loss, noisy) ==
    /\ usable => is_available("wifi_rssi", host)
    /\ collect("wifi_rssi", n, WiFiRSSISource_collect(n, usable, p, loss, noisy))

NextSources ==
    \/ \E n \in SampleSizes, p \in Patterns : collect_clock_jitter(n, p)
    \/ \E n \in SampleSizes, pats \in CounterMoves \cup {NoCounters} :
          collect_vmstat(n, pats)
    \/ \E n \in SampleSizes, p \in Patterns, loss \in Losses :
          collect_dns_timing(n, p, loss)
    \/ \E n \in SampleSizes : collect_sensor_noise(n)
    \/ \E n \in SampleSizes, p \in Patterns : collect_dispatch_queue(n, p)
    \/ \E n \in SampleSizes, pats \in CounterMoves \cup {NoCounters} :
          collect_ioregistry_deep(n, pats)
    \/ \E n \in SampleSizes, method \in BluetoothMethods, found \in Found,
          p \in Patterns : collect_bluetooth_ble(n, method, found, p)
    \/ \E n \in SampleSizes, usable \in BOOLEAN, p \in Patterns, loss \in Losses,
          noisy \in BOOLEAN : collect_wifi_rssi(n, usable, p, loss, noisy)

InitSources ==
    \E h \in Hosts : __init__(None, Ones(32)) /\ host = h /\ NoLibrary

\* Sources sampled directly, on each machine
SourceSpec == InitSources /\ [][NextSources]_vars

----------------------------------------------------------------------------
(* platform.py, detect_available_sources over the registry ALL_SOURCES of    *)
(* sources/__init__.py.  What probing a class does is an input: its          *)
(* constructor raises, is_available() raises, or is_available() returns      *)
(* True or False.                                                           *)

ALL_SOURCES ==
    <<"ClockJitterSource", "MachTimingSource", "SleepJitterSource", "SysctlSource",
      "VmstatSource", "DNSTimingSource", "TCPConnectSource", "WiFiRSSISource",
      "DiskIOSource", "MemoryTimingSource", "GPUTimingSource", "ProcessSource",
      "AudioNoiseSource", "CameraNoiseSource", "SensorNoiseSource",
      "BluetoothNoiseSource",
      "DRAMRowBufferSource", "CacheContentionSource", "PageFaultTimingSource",
      "SpeculativeExecutionSource",
      "IORegistryEntropySource",
      "CPUIOBeatSource", "CPUMemoryBeatSource", "MultiDomainBeatSource",
      "CompressionTimingSource", "HashTimingSource",
      "DispatchQueueSource", "DyldTimingSource", "VMPageTimingSource",
      "SpotlightTimingSource">>

ProbeOutcomes == {"available", "unavailable", "ctor_raises", "probe_raises"}

\* The classes whose probe varies freely; the others all do `base`
Varied == {1, 5, 30}
Probes ==
    {[i \in DOMAIN ALL_SOURCES |-> IF i \in Varied THEN f[i] ELSE base] :
        f \in [Varied -> ProbeOutcomes], base \in {"available", "unavailable"}}

\* a try block that covers the constructor only
TryProbeUnguarded(outcome) ==
    CASE outcome = "available" -> "append"
      [] outcome = "probe_raises" -> "raise"
      [] OTHER -> "continue"

\* lines 15-20, one class: try: src = cls(); if src.is_available(): append
\* except Exception: continue
TryProbe(outcome) ==
    CASE outcome = "available" -> "append"
      [] OTHER -> "continue"

\* lines 13-21: for cls in ALL_SOURCES
RECURSIVE DetectLoop(_, _, _)
DetectLoop(probes, i, available) ==
    IF i > Len(ALL_SOURCES) THEN [available |-> available, raised |-> FALSE]
    ELSE LET step == TryProbe(probes[i])
         IN CASE step = "append" ->
                    DetectLoop(probes, i + 1, Append(available, ALL_SOURCES[i]))
              [] step = "raise" -> [available |-> <<>>, raised |-> TRUE]
              [] OTHER -> DetectLoop(probes, i + 1, available)

detect_available_sources(probes) ==
    /\ LET r == DetectLoop(probes, 1, <<>>)
       IN detected' = [called |-> TRUE, probes |-> probes,
                       available |-> r.available, raised |-> r.raised]
    /\ UNCHANGED <<poolAll, host, sampled, streak, conditioned, battery, cli, race>>

NextDetect == \E probes \in Probes : detect_available_sources(probes)

\* The registry probed on machines on which the probes end in every way
DetectSpec == Init /\ [][NextDetect]_vars

----------------------------------------------------------------------------
(* conditioning.py: von_neumann_debias and xor_fold *)

MaxBits == 6            \* longest bit array debiased
MaxData == 4            \* longest byte array folded
MaxFold == 3            \* largest fold_factor

RECURSIVE SeqsUpTo(_, _)
SeqsUpTo(S, n) ==
    IF n = 0 THEN {<<>>}
    ELSE LET shorter == SeqsUpTo(S, n - 1)
         IN shorter \cup {Append(q, x) : q \in {r \in shorter : Len(r) = n - 1}, x \in S}

BitArrays == SeqsUpTo({0, 1}, MaxBits)              \* bits
ByteArrays == SeqsUpTo({0, 85, 255}, MaxData)       \* data
FoldFactors == 1..MaxFold                           \* fold_factor

\* pairs[mask, 1]: the second bit of each unequal pair
von_neumann_debias_second_bit(bits) ==
    LET b == [i \in DOMAIN bits |-> bits[i] % 2]
        n == Len(b) - (Len(b) % 2)
        output == Flatten([j \in 1..(n \div 2) |->
                     IF b[2 * j - 1] # b[2 * j] THEN <<b[2 * j]>> ELSE <<>>])
    IN [output |-> output, input_bits |-> Len(b), output_bits |-> Len(output),
        efficiency |-> <<Len(output), Max(Len(b), 1)>>]

\* von_neumann_debias, lines 20-29; efficiency is kept as <<numerator, denominator>>
von_neumann_debias(bits) ==
    LET b == [i \in DOMAIN bits |-> bits[i] % 2]
        n == Len(b) - (Len(b) % 2)
        output == Flatten([j \in 1..(n \div 2) |->
                     IF b[2 * j - 1] # b[2 * j] THEN <<b[2 * j - 1]>> ELSE <<>>])
    IN [output |-> output, input_bits |-> Len(b), output_bits |-> Len(output),
        efficiency |-> <<Len(output), Max(Len(b), 1)>>]

\* lines 37-39: result = chunks[:, 0]; for i in range(1, fold_factor): result ^= chunks[:, i]
RECURSIVE XorColumns(_, _, _)
XorColumns(chunk, i, acc) ==
    IF i > Len(chunk) THEN acc
    ELSE XorColumns(chunk, i + 1, bitwise_xor(acc, chunk[i]))

\* the loop run as range(fold_factor): column 0 is folded into itself
xor_fold_from_column_0(data, fold_factor) ==
    LET n == Len(data) - (Len(data) % fold_factor)
        chunk(j) == SubSeq(data, (j - 1) * fold_factor + 1, j * fold_factor)
    IN [j \in 1..(n \div fold_factor) |->
            XorColumns(chunk(j), 1, chunk(j)[1]) % 256]

\* xor_fold, lines 34-40
xor_fold(data, fold_factor) ==
    LET n == Len(data) - (Len(data) % fold_factor)
        chunk(j) == SubSeq(data, (j - 1) * fold_factor + 1, j * fold_factor)
    IN [j \in 1..(n \div fold_factor) |->
            XorColumns(chunk(j), 2, chunk(j)[1]) % 256]

debias(bits) ==
    /\ LET r == von_neumann_debias(bits)
       IN conditioned' = [fn |-> "von_neumann_debias", input |-> bits,
                          fold_factor |-> 0, output |-> r.output,
                          input_bits |-> r.input_bits, output_bits |-> r.output_bits]
    /\ UNCHANGED <<poolAll, host, sampled, streak, detected, battery, cli, race>>

fold(data, fold_factor) ==
    /\ conditioned' = [fn |-> "xor_fold", input |-> data, fold_factor |-> fold_factor,
                       output |-> xor_fold(data, fold_factor),
                       input_bits |-> 0, output_bits |-> 0]
    /\ UNCHANGED <<poolAll, host, sampled, streak, detected, battery, cli, race>>

NextConditioning ==
    \/ \E bits \in BitArrays : debias(bits)
    \/ \E data \in ByteArrays, k \in FoldFactors : fold(data, k)

\* The conditioning functions on every small input
ConditioningSpec == Init /\ [][NextConditioning]_vars

----------------------------------------------------------------------------
(* test_suite.py, run_all_tests over the registry ALL_TESTS.  The input is   *)
(* an array given by its shape; a test that has enough data either returns   *)
(* a result computed from a p-value or raises, and which one is an input.    *)

ALL_TESTS ==
    <<"monobit_frequency", "block_frequency", "byte_frequency",
      "runs_test", "longest_run_of_ones",
      "serial_test", "approximate_entropy",
      "dft_spectral", "spectral_flatness",
      "shannon_entropy_test", "min_entropy_test", "permutation_entropy_test",
      "compression_ratio_test", "kolmogorov_complexity_test",
      "autocorrelation_test", "serial_correlation_test", "lag_n_correlation",
      "cross_correlation_test",
      "ks_test", "anderson_darling_test",
      "overlapping_template", "non_overlapping_template", "maurers_universal",
      "binary_matrix_rank", "linear_complexity", "cusum_test",
      "random_excursions_test", "birthday_spacing_test",
      "bit_avalanche_test", "monte_carlo_pi", "mean_variance_test">>

InBits(k) == [unit |-> "bits", needed |-> k]
InBytes(k) == [unit |-> "bytes", needed |-> k]

\* The least input below which each test returns _insufficient, in the unit
\* the test counts in, with the default parameters of its signature
Needs ==
    <<InBits(100), InBits(10 * 128), InBytes(256),
      InBits(100), InBits(128),
      InBits(Pow(2, 4) + 10), InBits(64),
      InBits(64), InBytes(64),
      InBytes(16), InBytes(16), InBytes(4 + 10),
      InBytes(32), InBytes(32),
      InBytes(50 + 10), InBytes(20), InBytes(32 + 10),
      InBytes(100),
      InBytes(50), InBytes(50),
      InBits(1000), InBits(1000), InBits((640 + 100) * 6),
      InBits(38 * 32 * 32), InBits(6 * 200), InBits(100),
      InBits(1000), InBytes(100),
      InBytes(100), InBytes(200), InBytes(50)>>

\* A p-value is None or <<p>>, p in hundred-thousandths

grade_from_p(p) ==
    IF p = None THEN "F"
    ELSE IF p[1] >= 10000 THEN "A"
    ELSE IF p[1] >= 1000 THEN "B"
    ELSE IF p[1] >= 100 THEN "C"
    ELSE IF p[1] >= 10 THEN "D"
    ELSE "F"

pass_from_p(p) == p # None /\ p[1] >= 1000

TestResult(fn, passed, p_value, details, grade) ==
    [fn |-> fn, passed |-> passed, p_value |-> p_value, details |-> details,
     grade |-> grade]

_insufficient(fn) == TestResult(fn, FALSE, None, "Insufficient data", "F")

\* np.asarray(data).flatten(): the elements of every axis in one row
Shapes == {<<0>>, <<16>>, <<2, 100>>, <<5000>>}
flatten(shape) == SetProd(shape, DOMAIN shape)

\* _to_bits: eight bits a byte
_to_bits(n) == 8 * n

\* How a test with enough data ends: it raises, or computes the p-value p
Raises == [raises |-> TRUE, p |-> None]
Computes(p) == [raises |-> FALSE, p |-> p]

\* test_fn(data) for the i-th registered test: it returns a result or raises
test_fn(i, n, outcome) ==
    LET got == IF Needs[i].unit = "bits" THEN _to_bits(n) ELSE n
    IN IF got < Needs[i].needed
       THEN [raised |-> FALSE, result |-> _insufficient(ALL_TESTS[i])]
       ELSE IF outcome.raises
       THEN [raised |-> TRUE, result |-> _insufficient(ALL_TESTS[i])]
       ELSE [raised |-> FALSE,
             result |-> TestResult(ALL_TESTS[i], pass_from_p(outcome.p), outcome.p,
                                   "computed", grade_from_p(outcome.p))]

\* a loop body that skips the test that raised
RunTestSkipRaising(i, n, outcome) ==
    LET r == test_fn(i, n, outcome)
    IN IF r.raised THEN <<>> ELSE <<r.result>>

\* lines 840-849, one test: try: results.append(test_fn(data))
\* except Exception: results.append(TestResult(..., passed=False, grade="F"))
RunTest(i, n, outcome) ==
    LET r == test_fn(i, n, outcome)
    IN IF r.raised
       THEN <<TestResult(ALL_TESTS[i], FALSE, None, "Error", "F")>>
       ELSE <<r.result>>

\* The tests whose outcome varies freely; the others all do `base`
Tested == {1, 10, 31}
Endings ==
    {[i \in DOMAIN ALL_TESTS |-> IF i \in Tested THEN f[i] ELSE base] :
        f \in [Tested -> {Raises, Computes(<<5>>), Computes(<<5000>>)}],
        base \in {Raises, Computes(<<50000>>)}}

\* lines 838-850: for test_fn in ALL_TESTS
RECURSIVE BatteryLoop(_, _, _, _)
BatteryLoop(n, outcomes, i, acc) ==
    IF i > Len(ALL_TESTS) THEN acc
    ELSE BatteryLoop(n, outcomes, i + 1, acc \o RunTest(i, n, outcomes[i]))

run_all_tests(shape, outcomes) ==
    /\ battery' = [called |-> TRUE, data |-> shape, outcomes |-> outcomes,
                   results |-> BatteryLoop(flatten(shape), outcomes, 1, <<>>),
                   raised |-> FALSE, scored |-> battery.scored,
                   graded |-> battery.graded, score |-> battery.score]
    /\ UNCHANGED <<poolAll, host, sampled, streak, detected, conditioned, cli, race>>

NextBattery ==
    \E shape \in Shapes, outcomes \in Endings : run_all_tests(shape, outcomes)

\* The battery on inputs of every size, with tests that end in every way
BatterySpec == Init /\ [][NextBattery]_vars

----------------------------------------------------------------------------
(* test_suite.py, calculate_quality_score.  A score is the fraction         *)
(* <<numerator, denominator>> in lowest terms.                              *)

MaxResults == 3

Fraction(a, b) == LET g == Gcd(a, b) IN IF g = 0 THEN <<0, 1>> ELSE <<a \div g, b \div g>>

\* grade_scores.get(grade, 0)
grade_scores(grade) ==
    CASE grade = "A" -> 100
      [] grade = "B" -> 75
      [] grade = "C" -> 50
      [] grade = "D" -> 25
      [] OTHER -> 0

\* a mean over the tests that had enough data only
calculate_quality_score_of_computed(rs) ==
    LET computed == SelectSeq(rs, LAMBDA r : r.details # "Insufficient data")
    IN IF computed = <<>> THEN <<0, 1>>
       ELSE Fraction(SetSum([i \in DOMAIN computed |-> grade_scores(computed[i].grade)],
                            DOMAIN computed), Len(computed))

calculate_quality_score(rs) ==
    IF rs = <<>> THEN <<0, 1>>
    ELSE Fraction(SetSum([i \in DOMAIN rs |-> grade_scores(rs[i].grade)],
                         DOMAIN rs), Len(rs))

\* The results a list is made of: the F of a test without enough data, and
\* tests that computed each of the other grades
SomeResults ==
    {_insufficient("monobit_frequency")}
    \cup {TestResult("runs_test", g \in {"A", "B"}, None, "computed", g) :
             g \in {"A", "B", "C", "D"}}

ResultLists == SeqsUpTo(SomeResults, MaxResults)

\* cli.py and report.py: score = calculate_quality_score(results)
quality_score(rs) ==
    /\ battery' = [battery EXCEPT !.scored = TRUE, !.graded = rs,
                                  !.score = calculate_quality_score(rs)]
    /\ UNCHANGED <<poolAll, host, sampled, streak, detected, conditioned, cli, race>>

NextScore == \E rs \in ResultLists : quality_score(rs)

\* Every short list of results scored
ScoreSpec == Init /\ [][NextScore]_vars

----------------------------------------------------------------------------
(* cli.py, the stream command: a pool built by _make_pool, then the loop    *)
(* that fetches a chunk from the pool, writes its encoding and adds its     *)
(* length to the running total.  What is written is kept as a number of     *)
(* characters (bytes for the raw format).                                   *)

MaxChunk == 4096        \* min(rate, 4096)

Formats == {"raw", "hex", "base64"}
\* --rate, --bytes and --format: a rate limit with chunks of the rate in
\* every format, and no rate limit with one chunk or two
Options ==
    {[rate |-> r.rate, n_bytes |-> r.n_bytes, fmt |-> fmt] :
        r \in {[rate |-> 0, n_bytes |-> 33], [rate |-> 32, n_bytes |-> 1],
               [rate |-> 32, n_bytes |-> 64], [rate |-> 40, n_bytes |-> 70]},
        fmt \in Formats}
    \cup {[rate |-> 0, n_bytes |-> 4100, fmt |-> "hex"]}
Filters == {<<"clock_jitter">>}                     \* --sources

\* line 132
chunk_size(rate) == IF rate > 0 THEN Min(rate, MaxChunk) ELSE MaxChunk

\* the chunk size whatever is left to write
want_whole_chunk(c) == c.chunk_size

\* line 139
want(c) == IF c.n_bytes = 0 THEN c.chunk_size ELSE Min(c.chunk_size, c.n_bytes - c.total)

\* lines 142-150: the length of what one chunk of k bytes is written as:
\* the bytes, data.hex(), or base64.b64encode(data) with its padding
Encoded(fmt, k) ==
    CASE fmt = "raw" -> k
      [] fmt = "hex" -> 2 * k
      [] fmt = "base64" -> 4 * ((k + 2) \div 3)

\* pool.get_random_bytes(n) on the pool as it is: what the call leaves in the
\* pool's fields and what it returns
GetRandomBytes(n, outs, ts, rs) ==
    LET refill == NeedsRefill(Len(buffer), n)
        c == IF refill THEN CollectSequential(sources, outs)
             ELSE [sources |-> sources, raw |-> <<>>]
        p == ExtractLoop([counter |-> counter, buffer |-> buffer \o c.raw,
                          state |-> state, sha256 |-> sha256,
                          output |-> <<>>, blocks |-> <<>>],
                         n, ts, rs, 1)
    IN [refill |-> refill, sources |-> c.sources, pool |-> p,
        bytes |-> ReturnValue(p.output, n)]

\* lines 131-133: pool = _make_pool(source_filter), chunk_size, total = 0
stream(rate, fmt, source_filter, n_bytes) ==
    /\ cli.pc = "none"
    /\ pc = "idle"
    /\ sources = <<>>
    /\ sources' = [i \in DOMAIN source_filter |-> SourceState(source_filter[i], 1)]
    /\ cli' = [pc |-> "loop", rate |-> rate, fmt |-> fmt, n_bytes |-> n_bytes,
               chunk_size |-> chunk_size(rate), total |-> 0, written |-> 0,
               wants |-> <<>>, interrupted |-> FALSE]
    /\ UNCHANGED <<poolVars, parVars, ctor, pc, tasks, round, nextTid, call,
                   attempts, host, sampled, streak, detected, conditioned, battery,
                   race>>

\* lines 137-138: if 0 < n_bytes <= total: break
stream_break ==
    /\ cli.pc = "loop"
    /\ 0 < cli.n_bytes /\ cli.n_bytes <= cli.total
    /\ cli' = [cli EXCEPT !.pc = "exit"]
    /\ UNCHANGED <<poolAll, host, sampled, streak, detected, conditioned, battery,
                   race>>

\* lines 139-155: one pass of the loop; every block of the chunk is hashed
\* with the same clock reading t and random bytes rnd
stream_chunk(outs, t, rnd) ==
    /\ cli.pc = "loop"
    /\ ~(0 < cli.n_bytes /\ cli.n_bytes <= cli.total)
    /\ LET n == want(cli)
           g == GetRandomBytes(n, outs, [j \in 1..Passes(n) |-> t],
                               [j \in 1..Passes(n) |-> rnd])
       IN /\ ~g.refill => outs = [i \in DOMAIN sources |-> CHOOSE o \in Outcomes : TRUE]
          /\ sources' = g.sources
          /\ attempts' = IF g.refill THEN Attempts(outs) ELSE <<>>
          /\ round' = IF g.refill THEN round + 1 ELSE round
          /\ buffer' = g.pool.buffer
          /\ counter' = g.pool.counter
          /\ state' = g.pool.state
          /\ sha256' = g.pool.sha256
          /\ blocks' = g.pool.blocks
          /\ total_output' = total_output + n
          /\ Called([NoCall EXCEPT !.op = "get_random_bytes", !.n = n,
                                     !.bytes = g.bytes])
          /\ cli' = [cli EXCEPT !.total = @ + Len(g.bytes),
                                !.written = @ + Encoded(cli.fmt, Len(g.bytes)),
                                !.wants = Append(@, n)]
    /\ UNCHANGED <<parVars, ctor, pc, tasks, nextTid>>
    /\ UNCHANGED <<host, sampled, streak, detected, conditioned, battery, race>>

\* lines 156-157: except (BrokenPipeError, KeyboardInterrupt): pass
stream_interrupted ==
    /\ cli.pc = "loop"
    /\ cli' = [cli EXCEPT !.pc = "exit", !.interrupted = TRUE]
    /\ UNCHANGED <<poolAll, host, sampled, streak, detected, conditioned, battery,
                   race>>

NextStream ==
    \/ \E o \in Options, f \in Filters : stream(o.rate, o.fmt, f, o.n_bytes)
    \/ stream_break
    \/ \E outs \in [DOMAIN sources -> Outcomes], t \in Times :
          stream_chunk(outs, t, Ones(8))
    \/ stream_interrupted

\* A pass of the loop can be taken: the loop runs and does not break
PassEnabled == cli.pc = "loop" /\ ~(0 < cli.n_bytes /\ cli.n_bytes <= cli.total)

\* A step that is a pass of the loop
Pass == cli.pc = "loop" /\ Len(cli'.wants) = Len(cli.wants) + 1

\* The stream command with --bytes; the loop keeps running until it breaks
\* or is interrupted: weak fairness of stream_break and of stream_chunk, the
\* latter written out with its enabling condition
StreamSpec ==
    Init /\ [][NextStream]_vars /\ WF_vars(stream_break)
         /\ ([]<>(~PassEnabled) \/ []<><<Pass>>_vars)

----------------------------------------------------------------------------
(* pool.py with two threads on one pool, as the monitor runs it (the        *)
(* refresh loop and action_force_refresh both run _collect_cycle).  Each    *)
(* thread makes one call, get_random_bytes(n) or collect_all(), on a pool   *)
(* with one source.  A step is one access to a shared field: `x += v` is a  *)
(* load and a store, a `with self._lock:` block is one step, and the        *)
(* digest of a block is the record of what was hashed.                      *)

Threads == {1, 2}

\* The calls a thread makes
ThreadCalls ==
    {[op |-> "collect_all", n |-> 0], [op |-> "get_random_bytes", n |-> 1]}

\* A sample of 1..255 bytes (the 4 bytes), of more than 256, none, and an error
RaceOutcomes == {o \in Outcomes : o.kind = "raise" \/ o.sample \in {"low", "high"}}

NewThread(c) ==
    [op |-> c.op, n |-> c.n, pc |-> IF c.op = "collect_all" THEN "sample" ELSE "len",
     tmp |-> 0, data |-> <<>>, entropy |-> <<>>, raw |-> <<>>, sample |-> <<>>,
     st |-> <<>>, c |-> 0, output |-> 0]

\* Both threads are started on a fresh pool with one source
race_start(c1, c2) ==
    /\ ~race.started
    /\ race' = [started |-> TRUE, buffer |-> <<>>, counter |-> 0, total_output |-> 0,
                state |-> <<"seed">>,
                ss |-> [total_bytes |-> 0, failures |-> 0, last_entropy |-> <<>>,
                        healthy |-> TRUE],
                th |-> <<NewThread(c1), NewThread(c2)>>,
                blocks |-> <<>>, good |-> 0, bad |-> 0, inflight |-> 0]
    /\ UNCHANGED <<poolAll, host, sampled, streak, detected, conditioned, battery, cli>>

At(i, label) == race.started /\ race.th[i].pc = label

Frame == UNCHANGED <<poolAll, host, sampled, streak, detected, conditioned, battery, cli>>

\* get_random_bytes lines 150-154: with self._lock: pool_size = len(self._buffer)
r_pool_size(i) ==
    /\ At(i, "len")
    /\ race' = [race EXCEPT
                  !.th[i].pc = IF NeedsRefill(Len(race.buffer), race.th[i].n)
                               THEN "sample" ELSE "counter_load"]
    /\ Frame

\* _collect_one line 81: ss.source.collect() is entered
r_collect_call(i) ==
    /\ At(i, "sample")
    /\ race' = [race EXCEPT !.th[i].pc = "sampling", !.inflight = @ + 1]
    /\ Frame

\* lines 81-83 and 91: collect() returns data or raises; len(data) is tested
r_collect_return(i, o) ==
    /\ At(i, "sampling")
    /\ LET failed == o.kind = "raise" \/ Len(Array(o.sample)) = 0
       IN race' = [race EXCEPT
                  !.th[i].data = IF o.kind = "raise" THEN <<>> ELSE Array(o.sample),
                  !.th[i].entropy = IF o.kind = "raise" THEN <<>> ELSE Shannon[o.sample],
                  !.th[i].pc = IF failed THEN "failures_load" ELSE "total_load",
                  !.inflight = @ - 1,
                  !.good = IF failed THEN @ ELSE @ + Len(Array(o.sample)),
                  !.bad = IF failed THEN @ + 1 ELSE @]
    /\ Frame

\* line 84, ss.total_bytes += len(data): the load
r_total_load(i) ==
    /\ At(i, "total_load")
    /\ race' = [race EXCEPT !.th[i].tmp = race.ss.total_bytes,
                            !.th[i].pc = "total_store"]
    /\ Frame

\* line 84: the store
r_total_store(i) ==
    /\ At(i, "total_store")
    /\ race' = [race EXCEPT !.ss.total_bytes = race.th[i].tmp + Len(race.th[i].data),
                            !.th[i].pc = "entropy"]
    /\ Frame

\* line 85: ss.last_entropy = _quick_shannon(data)
r_entropy(i) ==
    /\ At(i, "entropy")
    /\ race' = [race EXCEPT !.ss.last_entropy = race.th[i].entropy,
                            !.th[i].pc = "healthy"]
    /\ Frame

\* lines 86-87: ss.healthy = ss.last_entropy > 1.0; return data.tobytes()
r_healthy(i) ==
    /\ At(i, "healthy")
    /\ race' = [race EXCEPT !.ss.healthy = EntropyAboveOne(race.ss.last_entropy),
                            !.th[i].raw = race.th[i].data,
                            !.th[i].pc = "extend"]
    /\ Frame

\* lines 89 and 92, ss.failures += 1: the load
r_failures_load(i) ==
    /\ At(i, "failures_load")
    /\ race' = [race EXCEPT !.th[i].tmp = race.ss.failures,
                            !.th[i].pc = "failures_store"]
    /\ Frame

\* lines 89 and 92: the store
r_failures_store(i) ==
    /\ At(i, "failures_store")
    /\ race' = [race EXCEPT !.ss.failures = race.th[i].tmp + 1,
                            !.th[i].pc = "unhealthy"]
    /\ Frame

\* lines 90 and 93-94: ss.healthy = False; return b""
r_unhealthy(i) ==
    /\ At(i, "unhealthy")
    /\ race' = [race EXCEPT !.ss.healthy = FALSE,
                            !.th[i].raw = <<>>,
                            !.th[i].pc = "extend"]
    /\ Frame

\* collect_all lines 110-112: with self._lock: self._buffer.extend(raw)
r_extend(i) ==
    /\ At(i, "extend")
    /\ race' = [race EXCEPT !.buffer = @ \o race.th[i].raw,
                            !.th[i].pc = IF race.th[i].op = "collect_all"
                                         THEN "done" ELSE "counter_load"]
    /\ Frame

\* line 158, self._counter += 1: the load
r_counter_load(i) ==
    /\ At(i, "counter_load")
    /\ race' = [race EXCEPT !.th[i].tmp = race.counter,
                            !.th[i].pc = "counter_store"]
    /\ Frame

\* line 158: the store
r_counter_store(i) ==
    /\ At(i, "counter_store")
    /\ race' = [race EXCEPT !.counter = race.th[i].tmp + 1,
                            !.th[i].pc = "take"]
    /\ Frame

\* lines 159-162: with self._lock: sample = self._buffer[:256] and the slice
r_take(i) ==
    /\ At(i, "take")
    /\ race' = [race EXCEPT !.th[i].sample = SlicePrefix(race.buffer, ChunkSize),
                            !.buffer = IF Len(race.buffer) > ChunkSize
                                       THEN SliceSuffix(race.buffer, ChunkSize)
                                       ELSE race.buffer,
                            !.th[i].pc = "read_state"]
    /\ Frame

\* line 165: h.update(self._state)
r_read_state(i) ==
    /\ At(i, "read_state")
    /\ race' = [race EXCEPT !.th[i].st = race.state, !.th[i].pc = "read_counter"]
    /\ Frame

\* line 167: h.update(struct.pack("<Q", self._counter))
r_read_counter(i) ==
    /\ At(i, "read_counter")
    /\ race' = [race EXCEPT !.th[i].c = race.counter, !.th[i].pc = "digest"]
    /\ Frame

\* What a thread hashes into its next block; os.urandom(8) is different in
\* every block
Hashed(t, i) ==
    [state |-> t.st, sample |-> t.sample, counter |-> t.c,
     urandom |-> <<i, t.output>>]

\* lines 170-171: self._state = h.digest(); output.extend(self._state), and
\* the test of the while loop
r_digest(i) ==
    /\ At(i, "digest")
    /\ LET t == race.th[i]
           digest == <<Hashed(t, i)>>
       IN race' = [race EXCEPT
                     !.state = digest,
                     !.blocks = Append(@, [thread |-> i, state |-> t.st,
                                           counter |-> t.c, digest |-> digest]),
                     !.th[i].output = @ + DigestSize,
                     !.th[i].pc = IF t.output + DigestSize < t.n
                                  THEN "counter_load" ELSE "output_load"]
    /\ Frame

\* line 173, self._total_output += n_bytes: the load
r_output_load(i) ==
    /\ At(i, "output_load")
    /\ race' = [race EXCEPT !.th[i].tmp = race.total_output,
                            !.th[i].pc = "output_store"]
    /\ Frame

\* line 173: the store, and the return
r_output_store(i) ==
    /\ At(i, "output_store")
    /\ race' = [race EXCEPT !.total_output = race.th[i].tmp + race.th[i].n,
                            !.th[i].pc = "done"]
    /\ Frame

NextRace ==
    \/ \E c1, c2 \in ThreadCalls : race_start(c1, c2)
    \/ \E i \in Threads : r_pool_size(i)
    \/ \E i \in Threads : r_collect_call(i)
    \/ \E i \in Threads, o \in RaceOutcomes : r_collect_return(i, o)
    \/ \E i \in Threads : r_total_load(i)
    \/ \E i \in Threads : r_total_store(i)
    \/ \E i \in Threads : r_entropy(i)
    \/ \E i \in Threads : r_healthy(i)
    \/ \E i \in Threads : r_failures_load(i)
    \/ \E i \in Threads : r_failures_store(i)
    \/ \E i \in Threads : r_unhealthy(i)
    \/ \E i \in Threads : r_extend(i)
    \/ \E i \in Threads : r_counter_load(i)
    \/ \E i \in Threads : r_counter_store(i)
    \/ \E i \in Threads : r_take(i)
    \/ \E i \in Threads : r_read_state(i)
    \/ \E i \in Threads : r_read_counter(i)
    \/ \E i \in Threads : r_digest(i)
    \/ \E i \in Threads : r_output_load(i)
    \/ \E i \in Threads : r_output_store(i)

\* Two threads, each in one call on the pool, interleaved in every way
RaceSpec == Init /\ [][NextRace]_vars

----------------------------------------------------------------------------
(* Properties *)

\* A sampling attempt fails when source.collect() raises or returns nothing
Failing(o) == o.kind = "raise" \/ Len(Array(o.sample)) = 0

\* The step is the return of a call of op
Returns(op) == call'.op = op /\ pc' = "idle" /\ (call'.seq # call.seq \/ pc # "idle")

\* C1: get_random_bytes(n) with n >= 0 returns exactly n bytes, whatever the
\* sources, their failures and the buffer are; get_random_bytes(0) returns b"".
C1_ExactLength ==
    (call.op = "get_random_bytes" /\ call.n >= 0) =>
        /\ Len(call.bytes) = call.n
        /\ call.n = 0 => call.bytes = <<>>

\* 33 bytes were returned from an empty buffer with every source failing, or
\* with no source at all
C1_Witness ==
    /\ call.op = "get_random_bytes" /\ call.n = 33
    /\ Len(call.bytes) = 33
    /\ buffer = <<>>
    /\ Len(sources) = 2
    /\ \A i \in DOMAIN sources : sources[i].failures > 0

\* C2: a source that raises or returns nothing never makes collect_all fail:
\* the round returns its byte count, every failing attempt adds exactly one to
\* that source's failures and leaves its total_bytes alone, and the buffer
\* grows by the bytes of the attempts that did not fail and by nothing else.
C2_FailuresContained ==
    [][/\ \A k \in DOMAIN attempts' :
            Failing(attempts'[k].outcome) =>
                /\ sources'[attempts'[k].ss].failures
                     = sources[attempts'[k].ss].failures + 1
                /\ sources'[attempts'[k].ss].total_bytes
                     = sources[attempts'[k].ss].total_bytes
       /\ (Returns("collect_all") /\ ~call'.parallel) =>
            /\ buffer' = buffer \o Flatten([k \in DOMAIN attempts' |->
                            IF Failing(attempts'[k].outcome) THEN <<>>
                            ELSE Array(attempts'[k].outcome.sample)])
            /\ call'.count = Len(buffer') - Len(buffer) /\ call'.error = ""
       /\ (tasks' # tasks /\ attempts' # <<>> /\ Failing(attempts'[1].outcome)) =>
            /\ results' = results
            /\ buffer' = buffer
       /\ (Returns("collect_all") /\ call'.parallel) =>
            /\ call'.count = Len(Flatten(results)) /\ call'.error = ""
            /\ buffer' = buffer \o Flatten(results)
      ]_vars

\* a sequential round in which one source raised and the other returned nothing
C2_Witness ==
    /\ call.op = "collect_all" /\ ~call.parallel
    /\ Len(attempts) = 2
    /\ attempts[1].outcome.kind = "raise"
    /\ attempts[2].outcome.kind = "return" /\ attempts[2].outcome.sample = "empty"
    /\ call.count = 0
    /\ sources[1].failures = 1 /\ sources[2].failures = 1

C4_AbandonedTaskIsInert ==
    [][(pc = "idle" /\ tasks' # tasks /\ attempts' # <<>>) => sources' = sources]_vars

\* C5: get_random_bytes with a negative count fails with invalid-length and
\* changes nothing.
C5_NegativeRejected ==
    [][(call'.seq # call.seq /\ call'.op = "get_random_bytes" /\ call'.n < 0) =>
            /\ call'.error = "invalid-length"
            /\ UNCHANGED <<buffer, counter, state, total_output, sources>>]_vars

\* C6: no two registered SourceState entries carry the same source name.
C6_NamesUnique ==
    \A i, j \in DOMAIN sources : i # j => sources[i].source # sources[j].source

\* C7 as claimed: the first conditioner state is the SHA-256 of 32 system
\* CSPRNG bytes followed by the seed, also when a seed is passed.
C7_SeedMixedWithCsprng ==
    call.op = "__init__" =>
        /\ buffer = <<>> /\ counter = 0
        /\ state = DigestBytes(1)
        /\ \E r \in Urandom32 :
              sha256 = <<r \o (IF ctor.seed = None THEN <<>> ELSE ctor.seed)>>

\* C7 as amended: a new pool has an empty buffer, counter 0 and the
\* conditioner state SHA-256(seed) when a non-empty seed is passed, and
\* SHA-256(32 system CSPRNG bytes) when the seed is missing or empty; the
\* state stays so until the first block.  Two pools built with the same
\* non-empty seed start in the same conditioner state.
C7_SeedReplacesCsprng ==
    /\ call.op = "__init__" => buffer = <<>>
    /\ counter = 0 =>
        /\ state = DigestBytes(1)
        /\ IF Truthy(ctor.seed)
           THEN sha256 = <<ctor.seed>> /\ ctor.urandom = <<>>
           ELSE sha256 = <<ctor.urandom>> /\ ctor.urandom \in Urandom32

\* a pool built with the seed of 32 zero bytes
C7_Witness ==
    /\ ctor.seed = Zeros(32)
    /\ counter = 0
    /\ call.op = "get_random_bytes" /\ call.n = 0

\* The bytes block b hashed between the conditioner state and the counter
Chunk(b) ==
    LET msg == sha256[b.digest[1] \div 256]
    IN SubSeq(msg, DigestSize + 1, Len(msg) - 24)

\* C8: each block is the SHA-256 of the conditioner state, the chunk taken
\* from the buffer, the counter (8 bytes, little endian), the wall time (8
\* bytes) and 8 system CSPRNG bytes, in this order and of nothing else; the
\* block is 32 bytes and is the state the next block is computed from.
C8_BlockOfFiveInputs ==
    \A k \in DOMAIN blocks :
        LET b == blocks[k]
            d == b.digest[1] \div 256
        IN /\ b.digest = DigestBytes(d)
           /\ Len(b.digest) = DigestSize
           /\ d \in DOMAIN sha256
           /\ sha256[d] = b.state \o Chunk(b) \o PackQ(b.counter)
                            \o PackD(b.time) \o b.urandom
           /\ Len(Chunk(b)) = b.taken /\ b.taken <= ChunkSize
           /\ Range(Chunk(b)) \subseteq 0..255
           /\ Len(b.state) = DigestSize /\ Len(b.urandom) = 8
           /\ \A j \in DOMAIN blocks :
                (/\ blocks[j].state = b.state /\ Chunk(blocks[j]) = Chunk(b)
                 /\ blocks[j].counter = b.counter /\ blocks[j].time = b.time
                 /\ blocks[j].urandom = b.urandom) => blocks[j].digest = b.digest

\* one call produced two blocks, the first from a full chunk of the buffer,
\* with different wall times and CSPRNG bytes
C8_Witness ==
    /\ Len(blocks) = 2
    /\ blocks[1].taken = ChunkSize /\ blocks[2].taken = 44
    /\ blocks[1].time # blocks[2].time
    /\ blocks[1].urandom # blocks[2].urandom
    /\ Len(sources) = 1 /\ ~sources[1].healthy

\* C9: the conditioner state changes only by becoming the digest of a block
\* just produced, the same 32 bytes that are appended to the output: after a
\* call that produced blocks the state is the last block, each block starts
\* from the block before it, and the state is a digest no earlier block had.
C9_StateIsLastBlock ==
    /\ [](/\ state = DigestBytes(Len(sha256))
          /\ Len(sha256) = counter + 1
          /\ (call.op = "get_random_bytes" /\ call.n > 0) =>
                /\ blocks # <<>>
                /\ state = blocks[Len(blocks)].digest
                /\ call.bytes = SlicePrefix(
                        Flatten([k \in DOMAIN blocks |-> blocks[k].digest]),
                        call.n))
    /\ [][state' # state =>
            /\ blocks' # <<>>
            /\ blocks'[1].state = state
            /\ \A k \in 1..(Len(blocks') - 1) :
                  blocks'[k + 1].state = blocks'[k].digest
            /\ state' = blocks'[Len(blocks')].digest
            /\ \A d \in 1..Len(sha256) : state' # DigestBytes(d)]_vars

\* two calls in a row produced a block each
C9_Witness ==
    /\ counter = 2
    /\ Len(blocks) = 1
    /\ call.op = "get_random_bytes" /\ call.n = 1
    /\ state = blocks[1].digest

\* C10: after every sampling attempt the source is healthy exactly when the
\* attempt did not fail (no exception, at least one byte) and the Shannon
\* entropy of the sample it returned is above 1.0 bit/byte.
C10_HealthyIffEntropyAndNoError ==
    [][\A k \in DOMAIN attempts' :
          LET a == attempts'[k] IN
          sources'[a.ss].healthy <=>
              (~Failing(a.outcome) /\ EntropyAboveOne(Shannon[a.outcome.sample]))
      ]_vars

\* an attempt returned bytes of entropy below 1.0 and left the source unhealthy,
\* and another returned bytes of entropy above 1.0 and left its source healthy
C10_Witness ==
    /\ Len(attempts) = 2
    /\ attempts[1].outcome.sample = "low" /\ ~sources[1].healthy
    /\ attempts[2].outcome.sample = "high" /\ sources[2].healthy

\* The step ran one sampling attempt on source i: _collect_one either counts
\* a failure or adds the sample's length to total_bytes
Sampled(i) ==
    (sources'[i].failures = sources[i].failures + 1)
        # (sources'[i].total_bytes > sources[i].total_bytes)

\* C11: a round samples every registered source once whatever its healthy
\* flag: a sequential round (also the refill of get_random_bytes) runs one
\* attempt on each source, a parallel round starts one task per source, and an
\* unhealthy source whose attempt returns a sample of Shannon entropy above
\* 1.0 is healthy after it.
C11_UnhealthyStillSampled ==
    [][/\ (round' = round + 1 /\ pc' = "idle") =>
            /\ Len(attempts') = Len(sources)
            /\ \A i \in DOMAIN sources : attempts'[i].ss = i /\ Sampled(i)
       /\ (round' = round + 1 /\ pc' # "idle") =>
            \A i \in DOMAIN sources :
                Cardinality({t \in tasks' \ tasks : t.ss = i /\ t.round = round'}) = 1
       /\ \A k \in DOMAIN attempts' :
            LET a == attempts'[k] IN
            (/\ ~sources[a.ss].healthy
             /\ ~Failing(a.outcome)
             /\ EntropyAboveOne(Shannon[a.outcome.sample])) =>
                sources'[a.ss].healthy /\ Sampled(a.ss)
      ]_vars

\* a source failed in one sequential round, was sampled again in the next and
\* is healthy after a sample of entropy 2.0
C11_Witness ==
    /\ tasks = {} /\ round = 2
    /\ call.op = "collect_all" /\ ~call.parallel
    /\ Len(sources) = 1
    /\ sources[1].failures = 1 /\ sources[1].total_bytes = Len(HighSample)
    /\ sources[1].healthy
    /\ attempts # <<>> /\ attempts[1].outcome.sample = "high"

\* C12: collect_all returns the number of bytes it appended to the buffer: the
\* buffer after the call is the buffer before it followed by that many bytes,
\* nothing touches the buffer while a parallel round is under way, and with no
\* registered source the call returns 0 and leaves the buffer as it was.
C12_ReturnsBytesAppended ==
    [][/\ Returns("collect_all") =>
            /\ call'.count = Len(buffer') - Len(buffer)
            /\ call'.count >= 0
            /\ SubSeq(buffer', 1, Len(buffer)) = buffer
            /\ Len(sources) = 0 => (call'.count = 0 /\ buffer' = buffer)
       /\ pc' # "idle" => buffer' = buffer
      ]_vars

\* a parallel round over two sources returned the length of both samples, which
\* is what the buffer holds
C12_Witness ==
    /\ pc = "idle" /\ call.op = "collect_all" /\ call.parallel
    /\ Len(sources) = 2
    /\ call.count = Len(LowSample) + Len(HighSample)
    /\ Len(buffer) = call.count

\* The buffer_cap_bytes setting: a cap of 512 bytes (the default is 16 MiB).
\* EntropyPool.__init__ takes no such setting and no code reads one.
buffer_cap_bytes == 512

\* C13: the buffer never holds more than buffer_cap_bytes bytes.
C13_BufferWithinCap == Len(buffer) <= buffer_cap_bytes

\* C14: collect(n) never returns more than n bytes, and collect(0) returns
\* none.
C14_AtMostRequested ==
    (sampled.source # "" /\ ~sampled.raised) => Len(sampled.data) <= sampled.n

\* C15: the bytes collect returns are bytes it measured, each once: no byte of
\* a SHA-256 digest and no measured byte repeated to fill the result up.
C15_OnlyMeasuredBytes ==
    (sampled.source # "" /\ ~sampled.raised) =>
        /\ Range(sampled.data) \subseteq 0..255
        /\ Len(sampled.data) <= Len(sampled.measured)
        /\ sampled.data = SubSeq(sampled.measured, 1, Len(sampled.data))
        /\ Len(sampled.measured) < sampled.n => sampled.data = sampled.measured

\* C16: ten collect(200) calls in a row on a source whose is_available() is
\* true deliver at least 10 bytes together.
C16_AvailabilityFloor ==
    (streak.calls = 10 /\ is_available(streak.source, host)) => streak.total >= 10

\* The place of a class in the registry
RegistryIndex(cls) == CHOOSE i \in DOMAIN ALL_SOURCES : ALL_SOURCES[i] = cls

\* C17: detect_available_sources returns the classes of the registry whose
\* is_available() returned True, and no other: each once, in registry order;
\* a class whose constructor or is_available raises is left out and the call
\* itself does not raise.
C17_DetectsExactlyAvailable ==
    detected.called =>
        /\ ~detected.raised
        /\ \A i \in DOMAIN ALL_SOURCES :
              (detected.probes[i] = "available")
                  <=> (ALL_SOURCES[i] \in Range(detected.available))
        /\ \A j, k \in DOMAIN detected.available :
              j < k => RegistryIndex(detected.available[j])
                          < RegistryIndex(detected.available[k])

\* the first class of the registry failed to construct, the probe of the fifth
\* raised, and the other 28 classes are returned
C17_Witness ==
    /\ detected.called
    /\ detected.probes[1] = "ctor_raises"
    /\ detected.probes[5] = "probe_raises"
    /\ detected.probes[30] = "available"
    /\ Len(detected.available) = 28
    /\ detected.available[1] = "MachTimingSource"
    /\ detected.available[28] = "SpotlightTimingSource"

\* The non-overlapping pairs of b whose two bits differ, by pair number
UnequalPairs(b) == {j \in 1..(Len(b) \div 2) : b[2 * j - 1] # b[2 * j]}

\* C18: von_neumann_debias emits one bit per non-overlapping pair whose bits
\* differ, in the order of the pairs: 0 for the pair 01 and 1 for the pair 10.
\* Equal pairs and an unpaired last bit give nothing.  It reports input_bits =
\* len(b) and output_bits = the number of bits emitted, at most floor(len(b)/2).
C18_DebiasEmitsFirstBits ==
    conditioned.fn = "von_neumann_debias" =>
        LET b == conditioned.input
            out == conditioned.output
            D == UnequalPairs(b)
        IN /\ Len(out) = Cardinality(D)
           /\ \A j \in D :
                LET k == Cardinality({i \in D : i <= j})
                IN /\ out[k] = b[2 * j - 1]
                   /\ (b[2 * j - 1] = 0 /\ b[2 * j] = 1) => out[k] = 0
                   /\ (b[2 * j - 1] = 1 /\ b[2 * j] = 0) => out[k] = 1
           /\ conditioned.input_bits = Len(b)
           /\ conditioned.output_bits = Len(out)
           /\ conditioned.output_bits <= Len(b) \div 2

\* five bits 1 0 1 1 0: the pair 10 gives 1, the pair 11 nothing and the last
\* bit is dropped
C18_Witness ==
    /\ conditioned.fn = "von_neumann_debias"
    /\ conditioned.input = <<1, 0, 1, 1, 0>>
    /\ conditioned.output = <<1>>
    /\ conditioned.input_bits = 5 /\ conditioned.output_bits = 1

\* Bit number k (0 the lowest) of the byte v
BitOf(v, k) == (v \div Pow(2, k)) % 2

\* C19: xor_fold of L bytes by the factor k >= 1 returns floor(L/k) bytes; bit
\* by bit, output byte j is the XOR of the input bytes j*k .. j*k+k-1 (counted
\* from 0), and the last L mod k input bytes take no part.
C19_FoldXorsGroups ==
    conditioned.fn = "xor_fold" =>
        LET data == conditioned.input
            k == conditioned.fold_factor
            out == conditioned.output
        IN /\ Len(out) = Len(data) \div k
           /\ \A j \in 1..Len(out) : \A bit \in 0..7 :
                /\ out[j] \in 0..255
                /\ BitOf(out[j], bit)
                     = Cardinality({i \in ((j - 1) * k + 1)..(j * k) :
                                        BitOf(data[i], bit) = 1}) % 2

\* four bytes folded by 3: one byte out, the fourth input byte dropped
C19_Witness ==
    /\ conditioned.fn = "xor_fold"
    /\ conditioned.input = <<85, 255, 0, 255>>
    /\ conditioned.fold_factor = 3
    /\ conditioned.output = <<170>>

\* C20 as written: run_all_tests returns 30 results in all
C20_ThirtyResults ==
    battery.called => Len(battery.results) = 30

\* C20: run_all_tests returns, on every input (the empty one and the ones on
\* which a test raises included), exactly one TestResult for each registered
\* test, 31 in all, in registration order; the result of a test that raised
\* has passed = False and grade F.
C20_OneResultPerTest ==
    battery.called =>
        /\ ~battery.raised
        /\ Len(battery.results) = Len(ALL_TESTS)
        /\ Len(battery.results) = 31
        /\ \A i \in DOMAIN ALL_TESTS :
              /\ battery.results[i].fn = ALL_TESTS[i]
              /\ test_fn(i, flatten(battery.data), battery.outcomes[i]).raised
                    => /\ battery.results[i].passed = FALSE
                       /\ battery.results[i].grade = "F"

\* 200 bytes in a 2 x 100 array: the first test raised, the tenth computed a
\* passing p-value, the third had too little data, and all 31 results are there
C20_Witness ==
    /\ battery.called
    /\ battery.data = <<2, 100>>
    /\ test_fn(1, 200, battery.outcomes[1]).raised
    /\ battery.results[1].details = "Error"
    /\ battery.results[3].details = "Insufficient data"
    /\ battery.results[10].passed
    /\ battery.results[10].grade = "B"
    /\ Len(battery.results) = 31

\* How many of the scored results carry the grade g
GradeCount(g) == Cardinality({i \in DOMAIN battery.graded : battery.graded[i].grade = g})

\* C21: calculate_quality_score is the arithmetic mean of the grade values
\* A=100, B=75, C=50, D=25, F=0 over all the results, the F of a test without
\* enough data included: it lies in [0,100], is 0 exactly when every result is
\* F, is 100 exactly when every result is A, and the empty list scores 0.
C21_ScoreIsMeanOfGrades ==
    battery.scored =>
        LET n == Len(battery.graded)
            num == battery.score[1]
            den == battery.score[2]
            total == 100 * GradeCount("A") + 75 * GradeCount("B")
                        + 50 * GradeCount("C") + 25 * GradeCount("D")
        IN /\ den > 0
           /\ n > 0 => num * n = total * den
           /\ n = 0 => num = 0
           /\ 0 <= num /\ num <= 100 * den
           /\ (num = 0) <=> (GradeCount("F") = n)
           /\ (num = 100 * den) <=> (n > 0 /\ GradeCount("A") = n)

\* a grade A, a grade B and a test without enough data score 175/3
C21_Witness ==
    /\ battery.scored
    /\ Len(battery.graded) = 3
    /\ \E i \in 1..3 : battery.graded[i].details = "Insufficient data"
    /\ GradeCount("A") = 1
    /\ GradeCount("B") = 1
    /\ battery.score = <<175, 3>>

\* The bytes fetched by the first k passes of the stream loop
Fetched(k) == SetSum(cli.wants, 1..k)

\* C22: the stream command with --bytes N > 0 terminates after writing the
\* encoding of exactly N bytes of pool output (2N characters in hex format):
\* each pass fetches min(chunk_size, N - total) bytes with chunk_size <= 4096,
\* so the running total reaches N exactly and never passes it.  A run cut
\* short by a broken pipe or a keyboard interrupt has written less.
C22_StreamWritesExactly ==
    /\ [](cli.pc # "none" /\ cli.n_bytes > 0 =>
            /\ cli.chunk_size <= 4096
            /\ cli.total <= cli.n_bytes
            /\ cli.total = Fetched(Len(cli.wants))
            /\ \A k \in DOMAIN cli.wants :
                  /\ cli.wants[k] > 0
                  /\ cli.wants[k] = Min(cli.chunk_size, cli.n_bytes - Fetched(k - 1))
            /\ cli.fmt = "raw" => cli.written = cli.total
            /\ cli.fmt = "hex" => cli.written = 2 * cli.total
            /\ cli.fmt = "base64" =>
                  cli.written = SetSum([k \in DOMAIN cli.wants |->
                                           4 * ((cli.wants[k] + 2) \div 3)],
                                       DOMAIN cli.wants)
            /\ (cli.pc = "exit" /\ ~cli.interrupted) => cli.total = cli.n_bytes)
    /\ (cli.pc = "loop") ~> (cli.pc = "exit")

\* --bytes 4100 in hex without a rate limit: chunks of 4096 and 4 bytes, 8200
\* characters written, and the loop has ended by itself
C22_Witness ==
    /\ cli.pc = "exit"
    /\ ~cli.interrupted
    /\ cli.n_bytes = 4100
    /\ cli.fmt = "hex"
    /\ cli.wants = <<4096, 4>>
    /\ cli.written = 8200

\* C24: the counter is incremented exactly once per output block and is
\* strictly increasing across the blocks of one pool: a call
\* get_random_bytes(n) adds ceil(n / 32) to it, so that after any sequence of
\* sequential calls it is the sum of the ceil(n_i / 32); no other call changes
\* it; the first block of a fresh pool is hashed with counter value 1; a call
\* with n = 0 leaves it unchanged.
C24_CounterCountsBlocks ==
    /\ [](/\ counter >= 0
          /\ \A k \in DOMAIN blocks : blocks[k].counter = counter - Len(blocks) + k
          /\ \A j, k \in DOMAIN blocks : j < k => blocks[j].counter < blocks[k].counter
          /\ (call.seq = 0) => counter = 0)
    /\ [][IF call'.op = "get_random_bytes" /\ call'.seq = call.seq + 1
          THEN /\ counter' = counter + (IF call'.n > 0
                                        THEN (call'.n + 31) \div 32 ELSE 0)
               /\ Len(blocks') = counter' - counter
               /\ call'.n = 0 => counter' = counter
          ELSE counter' = counter]_vars

\* a second call for one byte, on a pool that has produced one block: its
\* block is hashed with the counter value 2
C24_Witness ==
    /\ call.op = "get_random_bytes" /\ call.n = 1
    /\ total_output = 2
    /\ counter = 2
    /\ Len(blocks) = 1
    /\ blocks[1].counter = 2

\* C25: every output block consumes the bytes it takes: a block removes
\* min(256, len(buffer)) bytes from the front of the buffer, so a block that
\* took fewer than 256 bytes took the whole buffer and leaves it empty: the
\* next block of the call takes nothing and the buffer is empty after the call.
C25_BlockConsumesBytes ==
    (call.op = "get_random_bytes" /\ blocks # <<>>) =>
        /\ blocks[Len(blocks)].taken < ChunkSize => buffer = <<>>
        /\ \A k \in 1..(Len(blocks) - 1) :
              blocks[k].taken < ChunkSize => blocks[k + 1].taken = 0

\* C27 as written: an attempt whose sample returns at least one byte leaves
\* the source healthy, and one that returns nothing or raises leaves it unhealthy
C27_AnyByteMakesHealthy ==
    [][\A k \in DOMAIN attempts' :
          LET a == attempts'[k] IN
          /\ ~Failing(a.outcome) => sources'[a.ss].healthy
          /\ Failing(a.outcome) => ~sources'[a.ss].healthy
      ]_vars

\* C27: on each sampling attempt the SourceState moves by what the attempt
\* returned and not by where it was: a sample of at least one byte whose
\* Shannon entropy is above 1.0 leaves the source OK whether it was OK or
\* UNHEALTHY before; a sample of at least one byte whose entropy is not above
\* 1.0, a sample of 0 bytes and an error leave it UNHEALTHY whether it was OK
\* or UNHEALTHY before.
C27_TransitionsByEntropy ==
    [][\A k \in DOMAIN attempts' :
          LET a == attempts'[k]
              bytes == IF a.outcome.kind = "raise" THEN 0
                       ELSE Len(Array(a.outcome.sample))
              above == EntropyAboveOne(Shannon[a.outcome.sample])
          IN \A before \in {TRUE, FALSE} :
                sources[a.ss].healthy = before =>
                    /\ (bytes >= 1 /\ above) => sources'[a.ss].healthy
                    /\ (bytes >= 1 /\ ~above) => ~sources'[a.ss].healthy
                    /\ (bytes = 0) => ~sources'[a.ss].healthy
      ]_vars

\* a source that was OK after a sample of 300 bytes is UNHEALTHY after a
\* sample of 4 bytes of entropy 0.81
C27_Witness ==
    /\ Len(attempts) = 1
    /\ attempts[1].outcome.kind = "return"
    /\ attempts[1].outcome.sample = "low"
    /\ sources[1].total_bytes = 304
    /\ sources[1].failures = 0
    /\ ~sources[1].healthy

\* The bytes the step added to the sources' total_bytes
Collected == SetSum([i \in DOMAIN sources |->
                        sources'[i].total_bytes - sources[i].total_bytes],
                    DOMAIN sources)

\* C26: get_random_bytes(n) collects only when the buffer holds fewer than
\* 2n bytes when it is called, and then runs exactly one sequential round,
\* one attempt on each source, before the first block is produced; when the
\* buffer holds at least 2n bytes no source is sampled and every SourceState
\* is left as it was.
C26_RefillOnlyBelowTwiceRequest ==
    [][(call'.op = "get_random_bytes" /\ call'.seq = call.seq + 1) =>
          IF Len(buffer) < 2 * call'.n
          THEN /\ round' = round + 1
               /\ Len(attempts') = Len(sources)
               /\ \A i \in DOMAIN sources : attempts'[i].ss = i /\ Sampled(i)
               /\ blocks' # <<>> =>
                     blocks'[1].taken = Min(ChunkSize, Len(buffer) + Collected)
          ELSE /\ round' = round
               /\ attempts' = <<>>
               /\ sources' = sources
      ]_vars

\* a pool whose buffer holds 4 bytes served one byte without sampling its
\* source: the source was sampled once, in the collect_all call before
C26_Witness ==
    /\ call.op = "get_random_bytes" /\ call.n = 1
    /\ call.seq = 3
    /\ attempts = <<>>
    /\ round = 1
    /\ Len(buffer) = 4
    /\ Len(sources) = 1 /\ sources[1].total_bytes = 4
    /\ blocks[1].taken = 4

\* health_report()["raw_bytes"]: sum(s.total_bytes for s in self._sources)
raw_bytes(srcs) == SetSum([i \in DOMAIN srcs |-> srcs[i].total_bytes], DOMAIN srcs)

\* The bytes a running parallel round holds in `results`, on their way to
\* the buffer
Pending(p, rs) == IF p = "idle" THEN 0 ELSE Len(Flatten(rs))

\* C30: raw accounting is consistent after any sequence of collect_all
\* rounds: raw_bytes of health_report, the sum of the sources' total_bytes,
\* is the number of bytes collect_all has ever appended to the buffer (the sum
\* of its return values).  Step by step: raw_bytes grows by what the step
\* appended to the buffer (the return value of a sequential round or of a
\* parallel round that ends; the refill of get_random_bytes appends what it
\* collected) and by what it added to the results of the round that runs.
C30_RawBytesAreAppendedBytes ==
    [][LET appended ==
              IF call'.op = "get_random_bytes" /\ call'.seq = call.seq + 1
              THEN Collected
              ELSE IF call'.op = "collect_all" /\ pc' = "idle"
                      /\ (call'.seq = call.seq + 1 \/ pc = "gather")
              THEN call'.count
              ELSE 0
       IN Len(sources') = Len(sources) =>
             raw_bytes(sources') - raw_bytes(sources)
                = appended + Pending(pc', results') - Pending(pc, results)
      ]_vars

\* Both threads have returned from their calls
AllDone == race.started /\ \A i \in Threads : race.th[i].pc = "done"

\* C23: block production is serialised: when two threads call
\* get_random_bytes on the same pool at once, every block is computed from
\* the state left by the block produced before it, no two blocks are computed
\* from the same (state, counter) pair, and no update of the state or of the
\* counter is lost: after the calls the counter is the number of blocks.
C23_BlocksSerialised ==
    race.started =>
        /\ \A j, k \in DOMAIN race.blocks :
              j < k => <<race.blocks[j].state, race.blocks[j].counter>>
                          # <<race.blocks[k].state, race.blocks[k].counter>>
        /\ \A k \in 2..Len(race.blocks) :
              race.blocks[k].state = race.blocks[k - 1].digest
        /\ AllDone => race.counter = Len(race.blocks)

\* C28: at most one sample call is in flight for one SourceState at any time,
\* also when two threads call collect_all on the same pool at once.
C28_OneSampleInFlight ==
    race.started => race.inflight <= 1

\* C29: the SourceState fields are changed under the pool's mutex, so that
\* concurrent rounds lose no update: once they have all finished,
\* total_bytes is the sum of the lengths of the successful samples and
\* failures is the number of failed attempts.
C29_NoLostUpdate ==
    AllDone => /\ race.ss.total_bytes = race.good
               /\ race.ss.failures = race.bad

====
